---------------------------- MODULE Spec2Model ----------------------------
(***************************************************************************)
(* A model of traefik-home's page generator (app/generate_page.py).        *)
(*                                                                         *)
(* Python values are represented as follows.                               *)
(*   str    a sequence of one-character strings, <<"a","-","b">> for "a-b" *)
(*   list   a sequence                                                     *)
(*   dict   with keys that are data (service names, app names): a sequence *)
(*          of [k |-> key, v |-> value] pairs with distinct keys, in       *)
(*          insertion order, which is the order Python iterates in         *)
(*   dict   with fixed field names (metadata, override record, app         *)
(*          config): a function from the field names that are present      *)
(***************************************************************************)
EXTENDS Integers, Sequences, FiniteSets, TLC

VARIABLES
    service_urls,      \* argument of build_app_list: dict name -> list of URLs
    service_metadata,  \* argument of build_app_list: dict name -> metadata record
    overrides,         \* argument of build_app_list: dict name -> override record
    external_apps,     \* argument of build_app_list: dict name -> app config
    apps,              \* the list build_app_list returned
    stdout,            \* the lines build_app_list printed
    traefik_api,       \* whether main has a Traefik API base URL
    primary,           \* the proxy's response to GET /api/http/routers
    fallback,          \* the proxy's response to GET /api/routers
    containers,        \* the result of docker_client.containers.list()
    requests,          \* the endpoints fetch_traefik_routers requested
    own,               \* the lookup of the page generator's own container
    pc,                \* "map" before build_service_url_map, "labels" before
                       \* get_external_apps_from_labels, "call" before
                       \* build_app_list, "done" after it, "off" when the
                       \* pipeline does not run
    parsed_branches,   \* the branches the rule string was written from
    parsed_rule,       \* argument of parse_traefik_rule: the rule string
    parsed_protocol,   \* argument of parse_traefik_rule: the scheme
    parsed_urls,       \* the list parse_traefik_rule returned, in a one-element
                       \* sequence; <<>> before the call
    entry_points,      \* the entrypoint names of one router
    fetched_urls,      \* the map fetch_traefik_routers returned for the router, in
                       \* a one-element sequence; <<>> before the call
    labelled_urls,     \* the map build_service_url_map returned for the router
                       \* declared by labels, likewise
    heap,              \* the list objects the arguments of build_app_list refer to
    calls,             \* the invocations of build_app_list so far: the arguments
                       \* before and after, and the result
    files,             \* the directory: file name -> [content, mode]
    writer,            \* process -> its call of atomic_write: position, arguments,
                       \* temp_path, the target before the call, how the call ended
    writes,            \* the number of calls of atomic_write so far
    started,           \* the [content, mode] of every call so far
    returned,          \* the [content, mode] of every call that returned
    base_url,          \* argument of test_traefik_endpoint
    answers,           \* path -> what requests.get does for the URL of the path
    tested,            \* what generate_page.test_traefik_endpoint returned and the URLs
                       \* it requested, in a one-element sequence; <<>> before the call
    tested_next,       \* the same for test_traefik_endpoint of traefik_home_apps
    listed,            \* docker_client.containers.list(all=True)
    service_to_urls,   \* argument of build_app_list: dict name -> list of URLs
    app_overrides,     \* argument of build_app_list: dict name -> properties
    results            \* the list build_app_list returned, in a one-element sequence;
                       \* <<>> before the call

\* The variables of the pipeline main runs.
mainVars == <<service_urls, service_metadata, overrides, external_apps, apps, stdout,
              traefik_api, primary, fallback, containers, requests, own, pc>>

\* The variables of one application of parse_traefik_rule.
ruleVars == <<parsed_branches, parsed_rule, parsed_protocol, parsed_urls>>

\* The variables of the scheme inference of the two collectors.
schemeVars == <<entry_points, fetched_urls, labelled_urls>>

\* The variables of repeated invocations of build_app_list.
callVars == <<heap, calls>>

\* The variables of the calls of atomic_write on one directory.
writeVars == <<files, writer, writes, started, returned>>

\* The variables of the probes of a Traefik API base URL.
probeVars == <<base_url, answers, tested, tested_next>>

\* The variables of build_app_list of traefik_home_apps.py.
appsVars == <<listed, service_to_urls, app_overrides, results>>

\* The variables of the functions the pipeline's specifications do not run.
restVars == <<ruleVars, schemeVars, callVars, writeVars, probeVars, appsVars>>

vars == <<mainVars, restVars>>

\* The pipeline of main does not run.
MainIdle ==
    /\ service_urls = <<>>
    /\ service_metadata = <<>>
    /\ overrides = <<>>
    /\ external_apps = <<>>
    /\ apps = <<>>
    /\ stdout = <<>>
    /\ traefik_api = FALSE
    /\ primary = [ok |-> FALSE]
    /\ fallback = [ok |-> FALSE]
    /\ containers = [ok |-> FALSE]
    /\ requests = <<>>
    /\ own = [status |-> "unset"]
    /\ pc = "off"

\* parse_traefik_rule is not applied.
RuleIdle ==
    /\ parsed_branches = <<>>
    /\ parsed_rule = <<>>
    /\ parsed_protocol = <<>>
    /\ parsed_urls = <<>>

\* No scheme is inferred.
SchemeIdle ==
    /\ entry_points = <<>>
    /\ fetched_urls = <<>>
    /\ labelled_urls = <<>>

\* build_app_list is not invoked repeatedly.
CallIdle ==
    /\ heap = <<>>
    /\ calls = <<>>

\* atomic_write is not called.
WriteIdle ==
    /\ files = <<>>
    /\ writer = <<>>
    /\ writes = 0
    /\ started = {}
    /\ returned = {}

\* No base URL is probed.
ProbeIdle ==
    /\ base_url = <<>>
    /\ answers = <<>>
    /\ tested = <<>>
    /\ tested_next = <<>>

\* build_app_list of traefik_home_apps.py is not called.
AppsIdle ==
    /\ listed = <<>>
    /\ service_to_urls = <<>>
    /\ app_overrides = <<>>
    /\ results = <<>>

\* Only the pipeline runs.
RestIdle == RuleIdle /\ SchemeIdle /\ CallIdle /\ WriteIdle /\ ProbeIdle /\ AppsIdle

\* The variables that stay as they are while only ruleVars change.
notRuleVars == <<mainVars, schemeVars, callVars, writeVars, probeVars, appsVars>>

\* Nothing runs but the functions that use ruleVars.
OnlyRule == MainIdle /\ SchemeIdle /\ CallIdle /\ WriteIdle /\ ProbeIdle /\ AppsIdle

\* The variables that stay as they are while only schemeVars change.
notSchemeVars == <<mainVars, ruleVars, callVars, writeVars, probeVars, appsVars>>

\* Nothing runs but the functions that use schemeVars.
OnlyScheme == MainIdle /\ RuleIdle /\ CallIdle /\ WriteIdle /\ ProbeIdle /\ AppsIdle

\* The variables that stay as they are while only callVars change.
notCallVars == <<mainVars, ruleVars, schemeVars, writeVars, probeVars, appsVars>>

\* Nothing runs but the functions that use callVars.
OnlyCall == MainIdle /\ RuleIdle /\ SchemeIdle /\ WriteIdle /\ ProbeIdle /\ AppsIdle

\* The variables that stay as they are while only writeVars change.
notWriteVars == <<mainVars, ruleVars, schemeVars, callVars, probeVars, appsVars>>

\* Nothing runs but the functions that use writeVars.
OnlyWrite == MainIdle /\ RuleIdle /\ SchemeIdle /\ CallIdle /\ ProbeIdle /\ AppsIdle

\* The variables that stay as they are while only probeVars change.
notProbeVars == <<mainVars, ruleVars, schemeVars, callVars, writeVars, appsVars>>

\* Nothing runs but the functions that use probeVars.
OnlyProbe == MainIdle /\ RuleIdle /\ SchemeIdle /\ CallIdle /\ WriteIdle /\ AppsIdle

\* The variables that stay as they are while only appsVars change.
notAppsVars == <<mainVars, ruleVars, schemeVars, callVars, writeVars, probeVars>>

\* Nothing runs but the functions that use appsVars.
OnlyApps == MainIdle /\ RuleIdle /\ SchemeIdle /\ CallIdle /\ WriteIdle /\ ProbeIdle

(***************************************************************************)
(* Strings                                                                 *)
(***************************************************************************)

\* The characters of the model in code point order (ASCII).  A TLA+ string
\* cannot hold the backtick (code point 96); the model writes it "^" (94),
\* which lies between the same characters of the model.
CodePoints ==
    << " ", "\"", "'", "(", ")", ",", "-", ".", "/", ":", "@",
       "A", "B", "C", "D", "E", "F", "G", "H", "I", "J", "K", "L", "M",
       "N", "O", "P", "Q", "R", "S", "T", "U", "V", "W", "X", "Y", "Z",
       "^",
       "a", "b", "c", "d", "e", "f", "g", "h", "i", "j", "k", "l", "m",
       "n", "o", "p", "q", "r", "s", "t", "u", "v", "w", "x", "y", "z",
       "{", "|", "}" >>

\* ord(c), up to the offset of the first character of the model
OrdTable == [c \in {CodePoints[i] : i \in DOMAIN CodePoints} |->
                CHOOSE i \in DOMAIN CodePoints : CodePoints[i] = c]
Ord(c) == OrdTable[c]

IsUpper(c) == Ord(c) \in Ord("A")..Ord("Z")
IsLower(c) == Ord(c) \in Ord("a")..Ord("z")
IsCased(c) == IsUpper(c) \/ IsLower(c)

\* str.lower() and str.upper() on one character
LowerChar(c) == IF IsUpper(c) THEN CodePoints[Ord(c) - Ord("A") + Ord("a")] ELSE c
UpperChar(c) == IF IsLower(c) THEN CodePoints[Ord(c) - Ord("a") + Ord("A")] ELSE c

\* s.lower()
Lower(s) == [i \in DOMAIN s |-> LowerChar(s[i])]

\* s.replace(old, new) for one-character old and new
ReplaceChar(s, old, new) == [i \in DOMAIN s |-> IF s[i] = old THEN new ELSE s[i]]

\* s.title(): a cased character is upper-cased when it starts a word (it
\* follows no character or an uncased one) and lower-cased otherwise.
Title(s) ==
    [i \in DOMAIN s |->
        IF i = 1 \/ ~IsCased(s[i - 1]) THEN UpperChar(s[i]) ELSE LowerChar(s[i])]

\* s.startswith(p), s.endswith(p), p in s
StartsWith(s, p) == Len(p) <= Len(s) /\ SubSeq(s, 1, Len(p)) = p
EndsWith(s, p)   == Len(p) <= Len(s) /\ SubSeq(s, Len(s) - Len(p) + 1, Len(s)) = p
Contains(s, p)   == \E i \in 0..(Len(s) - Len(p)) : SubSeq(s, i + 1, i + Len(p)) = p

\* s < t for Python strings: lexicographic by code point, a proper prefix first
StrLess(s, t) ==
    \E i \in 1..(Len(t)) :
        /\ i <= Len(s) + 1
        /\ \A j \in 1..(i - 1) : s[j] = t[j]
        /\ \/ i = Len(s) + 1
           \/ i <= Len(s) /\ Ord(s[i]) < Ord(t[i])

\* s.find(p, start): the lowest 0-based index from start on where p occurs, or -1
Find(s, p, start) ==
    LET hits == {i \in start..(Len(s) - Len(p)) : SubSeq(s, i + 1, i + Len(p)) = p}
    IN  IF hits = {} THEN -1 ELSE CHOOSE i \in hits : \A j \in hits : i <= j

\* s[a:b] for 0 <= a
Slice(s, a, b) == SubSeq(s, a + 1, b)

\* s.strip(chars) for the set C of characters
RECURSIVE LStrip(_, _)
LStrip(s, C) == IF s # <<>> /\ s[1] \in C THEN LStrip(Tail(s), C) ELSE s
RECURSIVE RStrip(_, _)
RStrip(s, C) ==
    IF s # <<>> /\ s[Len(s)] \in C THEN RStrip(SubSeq(s, 1, Len(s) - 1), C) ELSE s
Strip(s, C) == RStrip(LStrip(s, C), C)

\* s.strip(): the space is the only whitespace of the model
StripSpace(s) == Strip(s, {" "})

\* s.replace(old, new) for a non-empty old: left to right, without overlap
RECURSIVE Replace(_, _, _)
Replace(s, old, new) ==
    IF s = <<>> THEN <<>>
    ELSE IF StartsWith(s, old)
         THEN new \o Replace(SubSeq(s, Len(old) + 1, Len(s)), old, new)
         ELSE <<s[1]>> \o Replace(Tail(s), old, new)

\* s.split(c) for a one-character separator
RECURSIVE Split(_, _)
Split(s, c) ==
    LET at == Find(s, <<c>>, 0)
    IN  IF at = -1 THEN <<s>>
        ELSE <<Slice(s, 0, at)>> \o Split(SubSeq(s, at + 2, Len(s)), c)

(***************************************************************************)
(* Dictionaries and lists                                                  *)
(***************************************************************************)

\* the keys of an insertion-ordered dict
DictKeys(d) == {d[i].k : i \in DOMAIN d}

\* k in d
InDict(k, d) == k \in DictKeys(d)

\* d[k]
DictAt(d, k) == d[CHOOSE i \in DOMAIN d : d[i].k = k].v

\* the empty dict {} as a record
EmptyRecord == <<>>

\* d.get(k, default) on an insertion-ordered dict
DictGet(d, k, default) == IF InDict(k, d) THEN DictAt(d, k) ELSE default

\* r.get(f, default) on a record
Get(r, f, default) == IF f \in DOMAIN r THEN r[f] ELSE default

\* the elements of a list
Range(s) == {s[i] : i \in DOMAIN s}

\* sorted(list(set)) of strings
RECURSIVE SortedList(_)
SortedList(S) ==
    IF S = {} THEN <<>>
    ELSE LET m == CHOOSE x \in S : \A y \in S \ {x} : StrLess(x, y)
         IN  <<m>> \o SortedList(S \ {m})


(***************************************************************************)
(* String constants of generate_page.py                                    *)
(***************************************************************************)

EmptyStr     == <<>>
AtDocker     == <<"@", "d", "o", "c", "k", "e", "r">>
AtFile       == <<"@", "f", "i", "l", "e">>
Hyphen       == <<"-">>
CategoryAdmin == <<"A", "d", "m", "i", "n">>
CategoryApps  == <<"A", "p", "p", "s">>

\* service_name.replace("-", " ").title(), the computed display name
default_name(service_name) == Title(ReplaceChar(service_name, "-", " "))

\* mutant of default_category: the admin flag is not looked at
Mutant_default_category(is_admin) == CategoryApps

\* "Admin" if is_admin else "Apps"
default_category(is_admin) == IF is_admin THEN CategoryAdmin ELSE CategoryApps

(***************************************************************************)
(* build_app_list, first loop: services that carry traefik-home labels.    *)
(* An entry of the model carries two history fields that the program does  *)
(* not have: key, the dict key the entry was built from, and src, the loop *)
(* that built it ("label", "external" or "override").                      *)
(***************************************************************************)

\* service_name.endswith("@docker") or service_name.endswith("@file")
is_router_key(service_name) ==
    EndsWith(service_name, AtDocker) \/ EndsWith(service_name, AtFile)

\* mutant of no_metadata: the opt-in gate is gone
Mutant_no_metadata(metadata) == FALSE

\* not metadata: the service has no record, or an empty one
no_metadata(metadata) == DOMAIN metadata = {}

\* mutant of label_hidden: the override's Hide replaces the label's hide
Mutant_label_hidden(metadata, override) ==
    Get(override, "Hide", Get(metadata, "hide", FALSE))

\* metadata.get("hide", False) or override.get("Hide", False)
label_hidden(metadata, override) ==
    Get(metadata, "hide", FALSE) \/ Get(override, "Hide", FALSE)

\* mutant of label_enabled: a service without Enable counts as disabled
Mutant_label_enabled(override) == Get(override, "Enable", FALSE)

\* override.get("Enable", True)
label_enabled(override) == Get(override, "Enable", TRUE)

\* mutant of label_icon: the override's Icon comes first
Mutant_label_icon(metadata, override) ==
    Get(override, "Icon", Get(metadata, "icon", EmptyStr))

\* metadata.get("icon", "") or override.get("Icon", "")
label_icon(metadata, override) ==
    IF Get(metadata, "icon", EmptyStr) # EmptyStr
    THEN metadata["icon"]
    ELSE Get(override, "Icon", EmptyStr)

\* override.get("Name", alias if alias else service_name.replace("-", " ").title())
label_display_name(service_name, metadata, override) ==
    LET alias == Get(metadata, "alias", EmptyStr)
    IN  Get(override, "Name",
            IF alias # EmptyStr THEN alias ELSE default_name(service_name))

\* override.get("Category", default_category)
label_category(metadata, override) ==
    Get(override, "Category", default_category(Get(metadata, "is_admin", FALSE)))

\* mutant of is_external_app: the first loop does not look at external_apps
Mutant_is_external_app(service_name, ea) == FALSE

\* service_name in external_apps
is_external_app(service_name, ea) == InDict(service_name, ea)

\* the conditions under which the first loop reaches apps.append
label_included(service_name, su, sm, ov, ea) ==
    /\ ~is_router_key(service_name)
    /\ ~is_external_app(service_name, ea)
    /\ ~no_metadata(DictGet(sm, service_name, EmptyRecord))
    /\ ~label_hidden(DictGet(sm, service_name, EmptyRecord),
                     DictGet(ov, service_name, EmptyRecord))
    /\ label_enabled(DictGet(ov, service_name, EmptyRecord))

\* the app dict of the first loop
label_app(service_name, urls, metadata, override) ==
    [ name        |-> label_display_name(service_name, metadata, override),
      urls        |-> urls,
      icon        |-> label_icon(metadata, override),
      description |-> Get(override, "Description", EmptyStr),
      category    |-> label_category(metadata, override),
      badge       |-> Get(override, "Badge", EmptyStr),
      key         |-> service_name,
      src         |-> "label" ]

\* for service_name, urls in service_urls.items(): ...
label_loop(su, sm, ov, ea) ==
    LET kept == SelectSeq(su, LAMBDA e : label_included(e.k, su, sm, ov, ea))
    IN  [i \in DOMAIN kept |->
            label_app(kept[i].k, kept[i].v,
                      DictGet(sm, kept[i].k, EmptyRecord),
                      DictGet(ov, kept[i].k, EmptyRecord))]

(***************************************************************************)
(* build_app_list, second loop: external apps                              *)
(***************************************************************************)

\* mutant of external_enabled: an app without the flag counts as enabled
Mutant_external_enabled(app_config) == Get(app_config, "enabled", TRUE)

\* app_config.get("enabled", False)
external_enabled(app_config) == Get(app_config, "enabled", FALSE)

\* mutant of external_matches: only the key equal to the app name matches
Mutant_external_matches(app_name, svc_key) == svc_key # EmptyStr /\ app_name = svc_key

\* the flexible match of an app name against a key of service_urls
external_matches(app_name, svc_key) ==
    /\ svc_key # EmptyStr
    /\ \/ app_name = svc_key
       \/ Contains(svc_key, app_name)
       \/ Contains(app_name, svc_key)
       \/ StartsWith(svc_key, app_name \o Hyphen)
       \/ StartsWith(app_name, svc_key \o Hyphen)

\* the entries of service_urls the app matches, in iteration order
external_matched(app_name, su) ==
    SelectSeq(su, LAMBDA e : external_matches(app_name, e.k))

\* mutant of external_urls: the app's own URLs replace the matched ones
Mutant_external_urls(app_name, app_config, su) ==
    LET matched == external_matched(app_name, su)
        found   == UNION {Range(matched[i].v) : i \in DOMAIN matched}
    IN  IF "urls" \in DOMAIN app_config
        THEN SortedList(Range(app_config["urls"]))
        ELSE SortedList(found)

\* urls after the matching loop and the additive merge of the .url labels
external_urls(app_name, app_config, su) ==
    LET matched == external_matched(app_name, su)
        found   == UNION {Range(matched[i].v) : i \in DOMAIN matched}
    IN  IF "urls" \in DOMAIN app_config
        THEN SortedList(found \cup Range(app_config["urls"]))
        ELSE SortedList(found)

\* the app dict of the second loop
external_app(app_name, app_config, urls) ==
    [ name        |-> Get(app_config, "alias", default_name(app_name)),
      urls        |-> urls,
      icon        |-> Get(app_config, "icon", EmptyStr),
      description |-> Get(app_config, "description", EmptyStr),
      category    |-> Get(app_config, "category",
                          default_category(Get(app_config, "is_admin", FALSE))),
      badge       |-> EmptyStr,
      key         |-> app_name,
      src         |-> "external" ]

\* what one iteration of the second loop appends to apps
external_step_apps(app_name, app_config, su) ==
    IF ~external_enabled(app_config) THEN <<>>
    ELSE LET urls == external_urls(app_name, app_config, su)
         IN  IF urls = <<>> THEN <<>>
             ELSE <<external_app(app_name, app_config, urls)>>

\* what one iteration of the second loop prints
external_step_prints(app_name, app_config, su) ==
    IF ~external_enabled(app_config) THEN <<>>
    ELSE LET matched == external_matched(app_name, su)
         IN  [i \in DOMAIN matched |->
                 [line |-> "matched", app |-> app_name, svc |-> matched[i].k]]
             \o (IF external_urls(app_name, app_config, su) = <<>>
                 THEN <<[line |-> "skipping", app |-> app_name, svc |-> EmptyStr]>>
                 ELSE <<>>)

\* for app_name, app_config in external_apps.items(): ...
RECURSIVE external_loop(_, _, _)
external_loop(i, ea, su) ==
    IF i > Len(ea) THEN [apps |-> <<>>, prints |-> <<>>]
    ELSE LET rest == external_loop(i + 1, ea, su)
         IN  [ apps   |-> external_step_apps(ea[i].k, ea[i].v, su) \o rest.apps,
               prints |-> external_step_prints(ea[i].k, ea[i].v, su) \o rest.prints ]

(***************************************************************************)
(* build_app_list, third loop: override-only entries                       *)
(***************************************************************************)

\* mutant of is_override_only: external apps are not looked at
Mutant_is_override_only(service_name, su, ea) == ~InDict(service_name, su)

\* service_name not in service_urls and service_name not in external_apps
is_override_only(service_name, su, ea) ==
    ~InDict(service_name, su) /\ ~InDict(service_name, ea)

\* mutant of override_enabled: a record without Enable counts as enabled
Mutant_override_enabled(override) == Get(override, "Enable", TRUE)

\* override.get("Enable", False)
override_enabled(override) == Get(override, "Enable", FALSE)

\* urls built from the override's Url or else its URLs
override_urls(override) ==
    IF "Url" \in DOMAIN override THEN <<override["Url"]>>
    ELSE IF "URLs" \in DOMAIN override THEN override["URLs"]
    ELSE <<>>

\* the conditions under which the third loop reaches apps.append
override_included(service_name, override, su, ea) ==
    /\ is_override_only(service_name, su, ea)
    /\ ~Get(override, "Hide", FALSE)
    /\ override_enabled(override)
    /\ override_urls(override) # <<>>

\* the app dict of the third loop
override_app(service_name, override) ==
    [ name        |-> Get(override, "Name", default_name(service_name)),
      urls        |-> override_urls(override),
      icon        |-> Get(override, "Icon", EmptyStr),
      description |-> Get(override, "Description", EmptyStr),
      category    |-> Get(override, "Category", CategoryApps),
      badge       |-> Get(override, "Badge", EmptyStr),
      key         |-> service_name,
      src         |-> "override" ]

\* for service_name, override in overrides.items(): ...
override_loop(ov, su, ea) ==
    LET kept == SelectSeq(ov, LAMBDA e : override_included(e.k, e.v, su, ea))
    IN  [i \in DOMAIN kept |-> override_app(kept[i].k, kept[i].v)]

(***************************************************************************)
(* build_app_list, the sort and the whole function                         *)
(***************************************************************************)

\* mutant of insert_by_name: e is put before the entries of the same name
Mutant_insert_by_name(sorted, e) ==
    LET before == {i \in DOMAIN sorted : StrLess(sorted[i].name, e.name)}
        n      == Cardinality(before)
    IN  SubSeq(sorted, 1, n) \o <<e>> \o SubSeq(sorted, n + 1, Len(sorted))

\* the list with e put after the last entry whose name is not greater
insert_by_name(sorted, e) ==
    LET after == {i \in DOMAIN sorted : ~StrLess(e.name, sorted[i].name)}
        n     == Cardinality(after)
    IN  SubSeq(sorted, 1, n) \o <<e>> \o SubSeq(sorted, n + 1, Len(sorted))

\* apps.sort(key=lambda x: x["name"]): a stable sort by name
RECURSIVE sort_by_name(_)
sort_by_name(list) ==
    IF list = <<>> THEN <<>>
    ELSE insert_by_name(sort_by_name(SubSeq(list, 1, Len(list) - 1)), list[Len(list)])

\* the second loop's part of the list is taken from one evaluation of the loop
build_app_list(su, sm, ov, ea) ==
    LET second == external_loop(1, ea, su)
    IN  [ apps   |-> sort_by_name(label_loop(su, sm, ov, ea) \o second.apps
                                  \o override_loop(ov, su, ea)),
          prints |-> second.prints ]


(***************************************************************************)
(* parse_traefik_rule                                                      *)
(***************************************************************************)

HostOpen       == <<"H", "o", "s", "t", "(">>
HostRegexpOpen == <<"H", "o", "s", "t", "R", "e", "g", "e", "x", "p", "(">>
CloseParen     == <<")">>
SchemeSep      == <<":", "/", "/">>
Http           == <<"h", "t", "t", "p">>
Https          == <<"h", "t", "t", "p", "s">>

\* part[start:end].strip("`").strip("'").strip('"')
strip_quotes(s) == Strip(Strip(Strip(s, {"^"}), {"'"}), {"\""})

\* the URLs one branch of the rule contributes
parse_part(raw, protocol) ==
    LET part == StripSpace(raw)
    IN  IF Contains(part, HostOpen)
        THEN LET start == Find(part, HostOpen, 0) + Len(HostOpen)
                 end   == Find(part, CloseParen, start)
             IN  IF end > start
                 THEN <<protocol \o SchemeSep \o strip_quotes(Slice(part, start, end))>>
                 ELSE <<>>
        ELSE IF Contains(part, HostRegexpOpen)
        THEN LET start == Find(part, HostRegexpOpen, 0) + Len(HostRegexpOpen)
                 end   == Find(part, CloseParen, start)
             IN  IF end > start
                 THEN LET host == strip_quotes(Slice(part, start, end))
                          bare == SelectSeq(host, LAMBDA c : c \notin {"{", "}"})
                      IN  <<protocol \o SchemeSep \o StripSpace(Split(bare, ",")[1])>>
                 ELSE <<>>
        ELSE <<>>

\* the concatenation of the lists of a list
RECURSIVE Flatten(_)
Flatten(lists) == IF lists = <<>> THEN <<>> ELSE lists[1] \o Flatten(Tail(lists))

parse_traefik_rule(rule, protocol) ==
    LET parts == Split(Replace(rule, <<"|", "|">>, <<"|">>), "|")
    IN  Flatten([i \in DOMAIN parts |-> parse_part(parts[i], protocol)])

(***************************************************************************)
(* fetch_traefik_routers.  A response is [ok |-> FALSE] when the request   *)
(* raised, timed out, had an error status or an unparseable body, and      *)
(* [ok |-> TRUE, body |-> b] otherwise, where b is the parsed JSON:        *)
(* [kind |-> "dict", items |-> a dict of router name -> router data] or    *)
(* [kind |-> "list", items |-> a list of router data].                     *)
(***************************************************************************)

RouterWord == <<"r", "o", "u", "t", "e", "r">>
At         == "@"

\* a.get(f) or a.get(g) or default, for values that are strings or lists
GetOr(r, f, g, default) ==
    IF Get(r, f, <<>>) # <<>> THEN r[f]
    ELSE IF Get(r, g, <<>>) # <<>> THEN r[g]
    ELSE default

\* d[k].extend(urls), with d[k] = [] first when k is not in d
DictExtend(d, k, urls) ==
    IF InDict(k, d)
    THEN [i \in DOMAIN d |-> IF d[i].k = k THEN [k |-> k, v |-> d[i].v \o urls] ELSE d[i]]
    ELSE Append(d, [k |-> k, v |-> urls])

\* list(dict.fromkeys(list)): the list without its repeated elements
RECURSIVE Unique(_)
Unique(l) ==
    IF l = <<>> THEN <<>>
    ELSE LET front == Unique(SubSeq(l, 1, Len(l) - 1))
         IN  IF l[Len(l)] \in Range(front) THEN front ELSE Append(front, l[Len(l)])

\* mutant of DictUnique: the repeated elements stay
Mutant_DictUnique(d) == d

\* every value of the dict without its repeated elements
DictUnique(d) == [i \in DOMAIN d |-> [k |-> d[i].k, v |-> Unique(d[i].v)]]

\* the (rname, rdata) pairs of the response body
router_items(body) ==
    IF body.kind = "dict" THEN body.items
    ELSE [i \in DOMAIN body.items |->
             [k |-> GetOr(body.items[i], "name", "router", EmptyStr), v |-> body.items[i]]]

\* "https" when an entrypoint name contains "secure", "https" or "websecure"
router_protocol(entrypoints) ==
    IF \E i \in DOMAIN entrypoints :
           \/ Contains(Lower(entrypoints[i]), <<"s", "e", "c", "u", "r", "e">>)
           \/ Contains(Lower(entrypoints[i]), Https)
           \/ Contains(Lower(entrypoints[i]), <<"w", "e", "b", "s", "e", "c", "u", "r", "e">>)
    THEN Https ELSE Http

\* mutant of strip_provider: the provider suffix stays
Mutant_strip_provider(name) == name

\* service.split("@")[0]
strip_provider(name) == Split(name, At)[1]

\* svc_norm.lower() == "router" or rname.lower() == "router"
is_router_artifact(svc_norm, rname) ==
    Lower(svc_norm) = RouterWord \/ Lower(rname) = RouterWord

\* service_urls after the loop body for one router
fetch_router_step(d, rname, rdata) ==
    LET entrypoints == GetOr(rdata, "entryPoints", "entrypoints", <<>>)
        rule        == GetOr(rdata, "rule", "Rule", EmptyStr)
        service     == GetOr(rdata, "service", "Service", EmptyStr)
        urls        == parse_traefik_rule(rule, router_protocol(entrypoints))
        svc_norm    == strip_provider(service)
        rname_base  == IF Contains(rname, <<At>>) THEN strip_provider(rname) ELSE rname
        d1 == IF svc_norm # EmptyStr THEN DictExtend(d, svc_norm, urls) ELSE d
        d2 == IF rname # EmptyStr THEN DictExtend(d1, rname, urls) ELSE d1
        d3 == IF rname # EmptyStr /\ rname_base # EmptyStr /\ rname_base # svc_norm
              THEN DictExtend(d2, rname_base, urls) ELSE d2
    IN  IF rule = EmptyStr THEN d
        ELSE IF urls = <<>> THEN d
        ELSE IF is_router_artifact(svc_norm, rname) THEN d
        ELSE d3

\* for rname, rdata in router_items: ...
RECURSIVE fetch_router_loop(_, _)
fetch_router_loop(d, items) ==
    IF items = <<>> THEN d
    ELSE fetch_router_loop(fetch_router_step(d, items[1].k, items[1].v), Tail(items))

\* mutant of requested_endpoints: the fallback is requested in any case
Mutant_requested_endpoints(primary_response) == <<"/api/http/routers", "/api/routers">>

\* the requests made: the primary endpoint, and the fallback in its except branch
requested_endpoints(primary_response) ==
    IF primary_response.ok THEN <<"/api/http/routers">>
    ELSE <<"/api/http/routers", "/api/routers">>

\* the map fetch_traefik_routers returns and the endpoints it requested
fetch_traefik_routers(api, primary_response, fallback_response) ==
    IF ~api THEN [urls |-> <<>>, requested |-> <<>>]
    ELSE LET requested == requested_endpoints(primary_response)
             answer    == IF primary_response.ok THEN primary_response
                          ELSE fallback_response
         IN  [ urls |-> IF ~answer.ok THEN <<>>
                        ELSE DictUnique(fetch_router_loop(<<>>, router_items(answer.body))),
               requested |-> requested ]

(***************************************************************************)
(* build_service_url_map.  A container is [name |-> its name, labels |->   *)
(* its labels, a dict of strings]; the listing is [ok |-> FALSE] when      *)
(* docker_client.containers.list() raised and [ok |-> TRUE, list |-> the   *)
(* containers] otherwise.                                                  *)
(***************************************************************************)

ComposeServiceLabel == <<"c", "o", "m", ".", "d", "o", "c", "k", "e", "r", ".", "c", "o", "m", "p", "o", "s", "e", ".", "s", "e", "r", "v", "i", "c", "e">>
TraefikHomeName     == <<"t", "r", "a", "e", "f", "i", "k", "-", "h", "o", "m", "e">>
HomePrefix          == <<"t", "r", "a", "e", "f", "i", "k", "-", "h", "o", "m", "e", ".">>
HomeIconLabel       == <<"t", "r", "a", "e", "f", "i", "k", "-", "h", "o", "m", "e", ".", "i", "c", "o", "n">>
HomeAliasLabel      == <<"t", "r", "a", "e", "f", "i", "k", "-", "h", "o", "m", "e", ".", "a", "l", "i", "a", "s">>
HomeHideLabel       == <<"t", "r", "a", "e", "f", "i", "k", "-", "h", "o", "m", "e", ".", "h", "i", "d", "e">>
HomeAdminLabel      == <<"t", "r", "a", "e", "f", "i", "k", "-", "h", "o", "m", "e", ".", "a", "d", "m", "i", "n">>
HomeEnableLabel     == <<"t", "r", "a", "e", "f", "i", "k", "-", "h", "o", "m", "e", ".", "e", "n", "a", "b", "l", "e">>
RoutersPrefix       == <<"t", "r", "a", "e", "f", "i", "k", ".", "h", "t", "t", "p", ".", "r", "o", "u", "t", "e", "r", "s", ".">>
RuleSuffix          == <<".", "r", "u", "l", "e">>
EntrypointsSuffix   == <<".", "e", "n", "t", "r", "y", "p", "o", "i", "n", "t", "s">>
RedirectWord        == <<"r", "e", "d", "i", "r", "e", "c", "t">>
WebsecureWord       == <<"w", "e", "b", "s", "e", "c", "u", "r", "e">>
TrueWord            == <<"t", "r", "u", "e">>

\* labels.get("com.docker.compose.service", container.name)
container_service_name(c) == DictGet(c.labels, ComposeServiceLabel, c.name)

\* mutant of has_traefik_home_labels: any label at all opts the container in
Mutant_has_traefik_home_labels(labels) == labels # <<>>

\* any(k.startswith("traefik-home.") for k in labels.keys())
has_traefik_home_labels(labels) ==
    \E i \in DOMAIN labels : StartsWith(labels[i].k, HomePrefix)

\* the metadata record of a container
container_metadata(labels) ==
    LET enable == Lower(DictGet(labels, HomeEnableLabel, EmptyStr))
    IN  [ icon     |-> DictGet(labels, HomeIconLabel, EmptyStr),
          alias    |-> DictGet(labels, HomeAliasLabel, EmptyStr),
          hide     |-> Lower(DictGet(labels, HomeHideLabel, EmptyStr)) = TrueWord,
          is_admin |-> Lower(DictGet(labels, HomeAdminLabel, EmptyStr)) = TrueWord,
          enable   |-> IF enable # EmptyStr THEN enable ELSE TrueWord ]

\* "https" when the router's entrypoints label contains "websecure" or "https"
label_protocol(labels, router_name) ==
    LET entrypoint_key == RoutersPrefix \o router_name \o EntrypointsSuffix
    IN  IF /\ InDict(entrypoint_key, labels)
           /\ \/ Contains(Lower(DictAt(labels, entrypoint_key)), WebsecureWord)
              \/ Contains(Lower(DictAt(labels, entrypoint_key)), Https)
        THEN Https ELSE Http

\* service_urls after the body of the label loop for one label
label_router_step(d, labels, service_name, key, value) ==
    IF ~(StartsWith(key, RoutersPrefix) /\ EndsWith(key, RuleSuffix)) THEN d
    ELSE IF Len(Split(key, ".")) < 4 THEN d
    ELSE LET router_name == Split(key, ".")[4]
             urls == parse_traefik_rule(value, label_protocol(labels, router_name))
         IN  IF Contains(Lower(router_name), RedirectWord) THEN d
             ELSE IF urls = <<>> \/ service_name = EmptyStr THEN d
             ELSE DictExtend(DictExtend(d, service_name, urls),
                             router_name \o AtDocker, urls)

\* for key, value in labels.items(): ...
RECURSIVE label_router_loop(_, _, _, _)
label_router_loop(d, labels, service_name, i) ==
    IF i > Len(labels) THEN d
    ELSE label_router_loop(
             label_router_step(d, labels, service_name, labels[i].k, labels[i].v),
             labels, service_name, i + 1)

\* service_urls and service_metadata after the loop body for one container
container_step(state, c) ==
    LET service_name == container_service_name(c)
    IN  IF service_name = TraefikHomeName THEN state
        ELSE [ urls |-> label_router_loop(state.urls, c.labels, service_name, 1),
               metadata |->
                   IF has_traefik_home_labels(c.labels) /\ ~InDict(service_name, state.metadata)
                   THEN Append(state.metadata,
                               [k |-> service_name, v |-> container_metadata(c.labels)])
                   ELSE state.metadata ]

\* for container in containers: ...
RECURSIVE container_loop(_, _)
container_loop(state, list) ==
    IF list = <<>> THEN state
    ELSE container_loop(container_step(state, list[1]), Tail(list))

\* mutant of build_service_url_map: a failed listing loses the router table's map
Mutant_build_service_url_map(listing, api, primary_response, fallback_response) ==
    LET fetched == fetch_traefik_routers(api, primary_response, fallback_response)
        looped  == container_loop([urls |-> fetched.urls, metadata |-> <<>>], listing.list)
    IN  IF ~listing.ok
        THEN [urls |-> <<>>, metadata |-> <<>>, requested |-> fetched.requested]
        ELSE [urls |-> DictUnique(looped.urls), metadata |-> looped.metadata,
              requested |-> fetched.requested]

\* (service_urls, service_metadata) and the endpoints requested on the way
build_service_url_map(listing, api, primary_response, fallback_response) ==
    LET fetched == fetch_traefik_routers(api, primary_response, fallback_response)
        looped  == container_loop([urls |-> fetched.urls, metadata |-> <<>>], listing.list)
    IN  IF ~listing.ok
        THEN [urls |-> fetched.urls, metadata |-> <<>>, requested |-> fetched.requested]
        ELSE [urls |-> DictUnique(looped.urls), metadata |-> looped.metadata,
              requested |-> fetched.requested]

(***************************************************************************)
(* get_external_apps_from_labels.  The lookup of the own container is      *)
(* [status |-> "unset"] when HOSTNAME is not set, "notfound" when          *)
(* containers.get raised NotFound, "error" when it raised anything else,   *)
(* and [status |-> "found", labels |-> its labels] otherwise.              *)
(***************************************************************************)

AppPrefix       == <<"t", "r", "a", "e", "f", "i", "k", "-", "h", "o", "m", "e", ".", "a", "p", "p", ".">>
AttrEnable      == <<"e", "n", "a", "b", "l", "e">>
AttrAlias       == <<"a", "l", "i", "a", "s">>
AttrIcon        == <<"i", "c", "o", "n">>
AttrUrl         == <<"u", "r", "l">>
AttrAdmin       == <<"a", "d", "m", "i", "n">>
AttrCategory    == <<"c", "a", "t", "e", "g", "o", "r", "y">>
AttrDescription == <<"d", "e", "s", "c", "r", "i", "p", "t", "i", "o", "n">>

\* cfg[f] = v
SetField(cfg, f, v) == [x \in DOMAIN cfg \cup {f} |-> IF x = f THEN v ELSE cfg[x]]

\* d[k] = v on an insertion-ordered dict
DictSet(d, k, v) ==
    IF InDict(k, d)
    THEN [i \in DOMAIN d |-> IF d[i].k = k THEN [k |-> k, v |-> v] ELSE d[i]]
    ELSE Append(d, [k |-> k, v |-> v])

\* the app's config after one of its labels: the attribute names that are
\* mapped, and the config unchanged for any other attribute
external_attribute(cfg, attribute, value) ==
    IF attribute = AttrEnable THEN SetField(cfg, "enabled", Lower(value) = TrueWord)
    ELSE IF attribute = AttrAlias THEN SetField(cfg, "alias", value)
    ELSE IF attribute = AttrIcon THEN SetField(cfg, "icon", value)
    ELSE IF attribute = AttrUrl
         THEN SetField(cfg, "urls", Append(Get(cfg, "urls", <<>>), value))
    ELSE IF attribute = AttrAdmin THEN SetField(cfg, "is_admin", Lower(value) = TrueWord)
    ELSE IF attribute = AttrCategory THEN SetField(cfg, "category", value)
    ELSE IF attribute = AttrDescription THEN SetField(cfg, "description", value)
    ELSE cfg

\* external_apps after the loop body for one label
external_label_step(ea, key, value) ==
    IF ~StartsWith(key, AppPrefix) THEN ea
    ELSE IF Len(Split(key, ".")) < 4 THEN ea
    ELSE LET app_name  == Split(key, ".")[3]
             attribute == Split(key, ".")[4]
         IN  DictSet(ea, app_name,
                     external_attribute(DictGet(ea, app_name, EmptyRecord), attribute, value))

\* for key, value in labels.items(): ...
RECURSIVE external_label_loop(_, _)
external_label_loop(ea, labels) ==
    IF labels = <<>> THEN ea
    ELSE external_label_loop(external_label_step(ea, labels[1].k, labels[1].v), Tail(labels))

get_external_apps_from_labels(lookup) ==
    IF lookup.status = "found" THEN external_label_loop(<<>>, lookup.labels) ELSE <<>>

(***************************************************************************)
(* The inputs of build_app_list that the model enumerates                  *)
(***************************************************************************)

\* at most this many entries in service_urls, overrides and external_apps together
MaxEntities == 3

NameA     == <<"a">>
NameAB    == <<"a", "-", "b">>
NameAFile == <<"a", "@", "f", "i", "l", "e">>
NameC     == <<"c">>
TitleAB   == <<"A", " ", "B">>
UrlX      == <<"x">>
UrlY      == <<"y">>
IconI     == <<"i">>
IconJ     == <<"j">>
CategoryNet == <<"N", "e", "t">>
TextD     == <<"d">>
LabelTrue == <<"t", "r", "u", "e">>
LabelFalse == <<"f", "a", "l", "s", "e">>

\* a record with one field
Field(f, v) == f :> v

\* URL lists: empty, one URL, two URLs in descending order, one URL twice
UrlLists == {<<>>, <<UrlX>>, <<UrlY, UrlX>>, <<UrlX, UrlX>>}

\* the insertion-ordered dicts of exactly n entries with keys in K and values in V
DictsOfLen(K, V, n) ==
    {d \in [1..n -> [k : K, v : V]] :
        \A i, j \in 1..n : i # j => d[i].k # d[j].k}

\* the insertion-ordered dicts of at most n entries
DictsUpTo(K, V, n) == UNION {DictsOfLen(K, V, i) : i \in 0..n}

ServiceKeys  == {NameAB, NameAFile}
OverrideKeys == {NameAB, NameC}
ExternalKeys == {NameA, NameAB}

\* a metadata record as build_service_url_map stores it
Metadata(icon, alias, hide, is_admin) ==
    [icon |-> icon, alias |-> alias, hide |-> hide, is_admin |-> is_admin,
     enable |-> LabelTrue]

\* metadata of the merge inputs: shown, hidden, shown with the label
\* traefik-home.enable set to "false", and the empty record
MetadataRecords ==
    {Metadata(EmptyStr, EmptyStr, FALSE, FALSE),
     Metadata(EmptyStr, EmptyStr, TRUE, FALSE),
     [Metadata(EmptyStr, EmptyStr, FALSE, FALSE) EXCEPT !["enable"] = LabelFalse],
     EmptyRecord}

\* override records of the merge inputs: the fields that decide inclusion,
\* the shapes of the URL fields, a record that names its entry and one that
\* gives its category
OverrideRecords ==
    { en @@ hi @@ ur :
        en \in {EmptyRecord, Field("Enable", TRUE), Field("Enable", FALSE)},
        hi \in {EmptyRecord, Field("Hide", TRUE)},
        ur \in {EmptyRecord, Field("Url", UrlX)} }
    \cup { Field("Hide", FALSE),
           Field("Hide", FALSE) @@ Field("Enable", TRUE) @@ Field("Url", UrlX) }
    \cup { Field("Enable", TRUE) @@ Field("URLs", l) : l \in UrlLists }
    \cup { Field("Enable", TRUE) @@ Field("Url", UrlX) @@ Field("URLs", <<UrlY>>),
           Field("Enable", TRUE) @@ Field("Url", UrlX) @@ Field("Name", TitleAB),
           Field("Enable", TRUE) @@ Field("Url", UrlX) @@ Field("Category", CategoryNet) }

\* app configs of the merge inputs, as get_external_apps_from_labels stores
\* them, and one with an empty list of URLs
ExternalConfigs ==
    { en @@ ur :
        en \in {EmptyRecord, Field("enabled", TRUE), Field("enabled", FALSE)},
        ur \in {EmptyRecord, Field("urls", <<UrlY, UrlX>>)} }
    \cup { Field("enabled", TRUE) @@ Field("urls", <<>>),
           Field("enabled", TRUE) @@ Field("urls", <<UrlX, UrlX>>) @@ Field("alias", NameA) }

\* metadata, override records and app configs that vary the display attributes
DisplayMetadata ==
    {Metadata(ic, al, FALSE, ad) :
        ic \in {EmptyStr, IconI}, al \in {EmptyStr, NameC}, ad \in BOOLEAN}

DisplayOverrides ==
    { na @@ ic @@ ca @@ de :
        na \in {EmptyRecord, Field("Name", NameA)},
        ic \in {EmptyRecord, Field("Icon", EmptyStr), Field("Icon", IconJ)},
        ca \in {EmptyRecord, Field("Category", CategoryNet)},
        de \in {EmptyRecord, Field("Description", TextD) @@ Field("Badge", TextD)} }

DisplayConfigs ==
    { Field("enabled", TRUE) @@ Field("urls", <<UrlX>>) @@ al @@ ic @@ ca @@ ad :
        al \in {EmptyRecord, Field("alias", NameC)},
        ic \in {EmptyRecord, Field("icon", IconI) @@ Field("description", TextD)},
        ca \in {EmptyRecord, Field("category", CategoryNet)},
        ad \in {EmptyRecord, Field("is_admin", TRUE), Field("is_admin", FALSE)} }

(***************************************************************************)
(* The specification: one invocation of build_app_list on any input        *)
(***************************************************************************)

\* inputs that vary which entities exist and which of them are included
InitMerge ==
    /\ service_urls \in DictsUpTo(ServiceKeys, UrlLists, MaxEntities)
    /\ service_metadata \in
           DictsUpTo(DictKeys(service_urls) \cap {NameAB}, MetadataRecords, 1)
    /\ overrides \in DictsUpTo(OverrideKeys, OverrideRecords, MaxEntities - Len(service_urls))
    /\ external_apps \in DictsUpTo(ExternalKeys, ExternalConfigs,
                                   MaxEntities - Len(service_urls) - Len(overrides))

\* inputs that vary the display attributes of one service, one external app
\* and one override-only entry
InitDisplay ==
    /\ service_urls = <<[k |-> NameAB, v |-> <<UrlX>>]>>
    /\ service_metadata \in DictsOfLen({NameAB}, DisplayMetadata, 1)
    /\ overrides \in DictsUpTo(OverrideKeys, DisplayOverrides, 1)
    /\ external_apps \in DictsUpTo({NameA}, DisplayConfigs, 1)

\* inputs that vary the keys an external app named "a-b" is matched against:
\* a key that occurs in its name, one that does not, and a router key
InitMatch ==
    /\ service_urls \in DictsUpTo({NameA, NameC, NameAFile}, {<<UrlX>>, <<UrlY>>}, 2)
    /\ service_metadata = <<>>
    /\ overrides = <<>>
    /\ external_apps \in
           DictsOfLen({NameAB}, { Field("enabled", TRUE),
                                 Field("enabled", TRUE) @@ Field("urls", <<UrlY>>) }, 1)

Init ==
    /\ InitMerge \/ InitDisplay \/ InitMatch
    /\ apps = <<>>
    /\ stdout = <<>>
    /\ traefik_api = FALSE
    /\ primary = [ok |-> FALSE]
    /\ fallback = [ok |-> FALSE]
    /\ containers = [ok |-> FALSE]
    /\ requests = <<>>
    /\ own = [status |-> "unset"]
    /\ pc = "call"
    /\ RestIdle

\* apps = build_app_list(service_urls, service_metadata, overrides, external_apps)
BuildAppList ==
    /\ pc = "call"
    /\ LET r == build_app_list(service_urls, service_metadata, overrides, external_apps)
       IN  /\ apps' = r.apps
           /\ stdout' = r.prints
    /\ pc' = "done"
    /\ UNCHANGED <<service_urls, service_metadata, overrides, external_apps,
                   traefik_api, primary, fallback, containers, requests, own, restVars>>

Next == BuildAppList

Spec == Init /\ [][Next]_vars


(***************************************************************************)
(* The pipeline of main: build_service_url_map (which fetches the router   *)
(* table first), then build_app_list on what it returned                   *)
(***************************************************************************)

\* at most this many routers of the router table and containers together
MaxSources == 2

RuleH         == <<"H", "o", "s", "t", "(", "^", "h", "^", ")">>
UrlHttpH      == <<"h", "t", "t", "p", ":", "/", "/", "h">>
UrlHttpsH     == <<"h", "t", "t", "p", "s", ":", "/", "/", "h">>
NameRouter    == <<"r", "o", "u", "t", "e", "r">>
NameRouterCap == <<"R", "o", "u", "t", "e", "r">>
RouterAtFile  == <<"r", "o", "u", "t", "e", "r", "@", "f", "i", "l", "e">>
RedirectAtFile == <<"b", "-", "r", "e", "d", "i", "r", "e", "c", "t", "@", "f", "i", "l", "e">>
ServiceADocker == <<"a", "@", "d", "o", "c", "k", "e", "r">>
LabelRuleR        == <<"t", "r", "a", "e", "f", "i", "k", ".", "h", "t", "t", "p", ".", "r", "o", "u", "t", "e", "r", "s", ".", "r", ".", "r", "u", "l", "e">>
LabelEntrypointsR == <<"t", "r", "a", "e", "f", "i", "k", ".", "h", "t", "t", "p", ".", "r", "o", "u", "t", "e", "r", "s", ".", "r", ".", "e", "n", "t", "r", "y", "p", "o", "i", "n", "t", "s">>
LabelRuleQ        == <<"t", "r", "a", "e", "f", "i", "k", ".", "h", "t", "t", "p", ".", "r", "o", "u", "t", "e", "r", "s", ".", "q", ".", "r", "u", "l", "e">>
LabelRuleRedirect == <<"t", "r", "a", "e", "f", "i", "k", ".", "h", "t", "t", "p", ".", "r", "o", "u", "t", "e", "r", "s", ".", "r", "-", "r", "e", "d", "i", "r", "e", "c", "t", ".", "r", "u", "l", "e">>
LabelHomeOther    == <<"t", "r", "a", "e", "f", "i", "k", "-", "h", "o", "m", "e", ".", "a", "p", "p", ".", "x", ".", "e", "n", "a", "b", "l", "e">>
ValueTrueCap      == <<"T", "r", "u", "e">>

\* router identifiers of the router table
RouterNames == {RouterAtFile, NameAFile, RedirectAtFile}

\* router data: a Host rule without a service, with a service (plain or on
\* a secure entrypoint) and with the service "Router", and one router
\* without a rule
RouterData ==
    { Field("rule", RuleH),
      Field("rule", RuleH) @@ Field("service", ServiceADocker),
      Field("rule", RuleH) @@ Field("service", ServiceADocker)
          @@ Field("entryPoints", <<WebsecureWord>>),
      Field("rule", RuleH) @@ Field("service", NameRouterCap),
      Field("service", ServiceADocker) }

\* the JSON bodies of n routers: an object keyed by router identifier, and
\* for one router also the list format, where the identifier is a field
RouterTables(n) ==
    { [kind |-> "dict", items |-> d] : d \in DictsOfLen(RouterNames, RouterData, n) }
    \cup IF n # 1 THEN {}
         ELSE { [kind |-> "list", items |-> <<rd @@ Field("name", rn)>>] :
                    rn \in RouterNames, rd \in RouterData }

\* one label
Label(key, value) == <<[k |-> key, v |-> value]>>

\* label maps: a router rule under each kind of traefik-home.* label, the
\* kinds of router label without one, a traefik-home.* label alone, a map
\* with a compose service name, and a map with a secure and a plain router
LabelMaps ==
    { home \o Label(LabelRuleR, RuleH) :
        home \in { <<>>, Label(HomeIconLabel, IconI), Label(HomeHideLabel, ValueTrueCap),
                   Label(LabelHomeOther, TrueWord) } }
    \cup { <<>>,
           Label(LabelRuleR, RuleH) \o Label(LabelEntrypointsR, WebsecureWord),
           Label(LabelRuleRedirect, RuleH),
           Label(HomeIconLabel, IconI),
           Label(ComposeServiceLabel, NameRouterCap) \o Label(LabelRuleR, RuleH),
           Label(LabelRuleR, RuleH) \o Label(LabelEntrypointsR, WebsecureWord)
               \o Label(LabelRuleQ, RuleH) }

\* the containers: any label map on the names "router" and "a-b", and the
\* page generator's own container
Containers ==
    [name : {NameRouter, NameAB}, labels : LabelMaps]
    \cup { [name |-> TraefikHomeName,
            labels |-> Label(LabelHomeOther, TrueWord) \o Label(LabelRuleR, RuleH)] }

\* the listings of n containers with distinct names
Listings(n) ==
    { l \in [1..n -> Containers] : \A i, j \in 1..n : i # j => l[i].name # l[j].name }

\* the proxy as main finds it, <<traefik_api, primary, fallback>>, when its
\* table has n routers: the primary endpoint answers, or only the fallback
\* does; with no router also the proxy that answers on neither endpoint, and
\* with at most one router the proxy for which main has no API URL
Proxies(n) ==
    UNION { { <<TRUE, [ok |-> TRUE, body |-> t], [ok |-> FALSE]>>,
              <<TRUE, [ok |-> FALSE], [ok |-> TRUE, body |-> t]>> }
            \cup (IF n <= 1 THEN {<<FALSE, [ok |-> TRUE, body |-> t], [ok |-> FALSE]>>}
                  ELSE {})
            : t \in RouterTables(n) }
    \cup IF n = 0 THEN {<<TRUE, [ok |-> FALSE], [ok |-> FALSE]>>} ELSE {}

\* the configuration next to the discovered services: none, or an override
\* for a service that does not exist and an external app declared as "router"
Configurations ==
    { <<(<<>>), (<<>>)>>,
      << <<[k |-> NameC, v |-> Field("Enable", TRUE) @@ Field("Url", UrlX)]>>,
         <<[k |-> NameRouter, v |-> Field("enabled", TRUE) @@ Field("urls", <<UrlX>>)]>> >> }

InitPipe ==
    /\ \E r \in 0..MaxSources : \E p \in Proxies(r) :
           /\ traefik_api = p[1]
           /\ primary = p[2]
           /\ fallback = p[3]
           /\ containers \in {[ok |-> FALSE]}
                  \cup { [ok |-> TRUE, list |-> l] :
                             l \in UNION {Listings(c) : c \in 0..(MaxSources - r)} }
    /\ \E c \in Configurations :
           /\ overrides = c[1]
           /\ external_apps = c[2]
    /\ service_urls = <<>>
    /\ service_metadata = <<>>
    /\ apps = <<>>
    /\ stdout = <<>>
    /\ requests = <<>>
    /\ own = [status |-> "unset"]
    /\ pc = "map"
    /\ RestIdle

\* service_urls, service_metadata = build_service_url_map(docker_client, traefik_api)
BuildServiceUrlMap ==
    /\ pc = "map"
    /\ LET r == build_service_url_map(containers, traefik_api, primary, fallback)
       IN  /\ service_urls' = r.urls
           /\ service_metadata' = r.metadata
           /\ requests' = r.requested
    /\ pc' = "call"
    /\ UNCHANGED <<overrides, external_apps, apps, stdout,
                   traefik_api, primary, fallback, containers, own, restVars>>

NextPipe == BuildServiceUrlMap \/ BuildAppList

SpecPipe == InitPipe /\ [][NextPipe]_vars


(***************************************************************************)
(* External apps as main obtains them: get_external_apps_from_labels on    *)
(* the own container, then build_app_list                                  *)
(***************************************************************************)

LabelAppEnable      == <<"t", "r", "a", "e", "f", "i", "k", "-", "h", "o", "m", "e", ".", "a", "p", "p", ".", "a", ".", "e", "n", "a", "b", "l", "e">>
LabelAppRouter      == <<"t", "r", "a", "e", "f", "i", "k", "-", "h", "o", "m", "e", ".", "a", "p", "p", ".", "a", ".", "r", "o", "u", "t", "e", "r">>
LabelAppUrl         == <<"t", "r", "a", "e", "f", "i", "k", "-", "h", "o", "m", "e", ".", "a", "p", "p", ".", "a", ".", "u", "r", "l">>
LabelAppUrl2        == <<"t", "r", "a", "e", "f", "i", "k", "-", "h", "o", "m", "e", ".", "a", "p", "p", ".", "a", ".", "u", "r", "l", ".", "2">>
LabelAppAlias       == <<"t", "r", "a", "e", "f", "i", "k", "-", "h", "o", "m", "e", ".", "a", "p", "p", ".", "a", ".", "a", "l", "i", "a", "s">>
LabelAppIcon        == <<"t", "r", "a", "e", "f", "i", "k", "-", "h", "o", "m", "e", ".", "a", "p", "p", ".", "a", ".", "i", "c", "o", "n">>
LabelAppCategory    == <<"t", "r", "a", "e", "f", "i", "k", "-", "h", "o", "m", "e", ".", "a", "p", "p", ".", "a", ".", "c", "a", "t", "e", "g", "o", "r", "y">>
LabelAppDescription == <<"t", "r", "a", "e", "f", "i", "k", "-", "h", "o", "m", "e", ".", "a", "p", "p", ".", "a", ".", "d", "e", "s", "c", "r", "i", "p", "t", "i", "o", "n">>
LabelAppAdmin       == <<"t", "r", "a", "e", "f", "i", "k", "-", "h", "o", "m", "e", ".", "a", "p", "p", ".", "a", ".", "a", "d", "m", "i", "n">>
LabelAppShort       == <<"t", "r", "a", "e", "f", "i", "k", "-", "h", "o", "m", "e", ".", "a", "p", "p", ".", "a">>
LabelOtherAppUrl    == <<"t", "r", "a", "e", "f", "i", "k", "-", "h", "o", "m", "e", ".", "a", "p", "p", ".", "c", ".", "u", "r", "l">>
FalseWord           == <<"f", "a", "l", "s", "e">>

\* the labels of the own container: for the app "a" an enable label, a
\* router reference (to a router key or to a service), URLs and display
\* attributes, each present or not; and maps with labels that declare
\* nothing, a key too short to name an attribute, and a second app
HomeLabelMaps ==
    { en \o ro \o ur \o di :
        en \in { <<>>, Label(LabelAppEnable, TrueWord), Label(LabelAppEnable, ValueTrueCap),
                 Label(LabelAppEnable, FalseWord) },
        ro \in { <<>>, Label(LabelAppRouter, NameAFile), Label(LabelAppRouter, NameC) },
        ur \in { <<>>, Label(LabelAppUrl, UrlX),
                 Label(LabelAppUrl, UrlY) \o Label(LabelAppUrl2, UrlX) },
        di \in { <<>>,
                 Label(LabelAppAlias, TitleAB) \o Label(LabelAppIcon, IconI)
                     \o Label(LabelAppCategory, CategoryNet)
                     \o Label(LabelAppDescription, TextD)
                     \o Label(LabelAppAdmin, ValueTrueCap) } }
    \cup { Label(HomeIconLabel, IconI) \o Label(LabelRuleR, RuleH),
           Label(LabelAppShort, TrueWord),
           Label(LabelOtherAppUrl, UrlY) \o Label(LabelAppEnable, TrueWord)
               \o Label(LabelAppUrl, UrlX) }

InitExt ==
    /\ own \in { [status |-> "unset"], [status |-> "notfound"], [status |-> "error"] }
                \cup { [status |-> "found", labels |-> l] : l \in HomeLabelMaps }
    /\ service_urls \in DictsUpTo({NameAB, NameAFile, NameC}, {<<UrlX>>, <<UrlY>>}, 2)
    /\ service_metadata = <<>>
    /\ overrides \in
           { <<>>,
             <<[k |-> NameA, v |-> Field("Name", NameC) @@ Field("Icon", IconJ)
                                     @@ Field("Category", CategoryAdmin)
                                     @@ Field("Description", TextD)
                                     @@ Field("Badge", TextD)]>> }
    /\ external_apps = <<>>
    /\ apps = <<>>
    /\ stdout = <<>>
    /\ traefik_api = FALSE
    /\ primary = [ok |-> FALSE]
    /\ fallback = [ok |-> FALSE]
    /\ containers = [ok |-> FALSE]
    /\ requests = <<>>
    /\ pc = "labels"
    /\ RestIdle

\* external_apps = get_external_apps_from_labels(docker_client)
GetExternalAppsFromLabels ==
    /\ pc = "labels"
    /\ external_apps' = get_external_apps_from_labels(own)
    /\ pc' = "call"
    /\ UNCHANGED <<service_urls, service_metadata, overrides, apps, stdout,
                   traefik_api, primary, fallback, containers, requests, own, restVars>>

NextExt == GetExternalAppsFromLabels \/ BuildAppList

SpecExt == InitExt /\ [][NextExt]_vars


(***************************************************************************)
(* Vocabulary of the properties                                            *)
(***************************************************************************)

Done == pc = "done"

\* the entries of the returned list that were built from key k
EntriesOf(k) == {i \in DOMAIN apps : apps[i].key = k}

\* the position of key k in an insertion-ordered dict
IndexOf(d, k) == CHOOSE i \in DOMAIN d : d[i].k = k

\* the metadata and the override record of a key, empty when it has none
MetadataOf(k) == DictGet(service_metadata, k, EmptyRecord)
OverrideOf(k) == DictGet(overrides, k, EmptyRecord)

\* a list has no element twice
NoDuplicates(l) == \A i, j \in DOMAIN l : i # j => l[i] # l[j]

\* a list without its repeated elements, first occurrences kept in order
RECURSIVE FirstSeen(_)
FirstSeen(l) ==
    IF l = <<>> THEN <<>>
    ELSE LET front == FirstSeen(SubSeq(l, 1, Len(l) - 1))
         IN  IF l[Len(l)] \in Range(front) THEN front ELSE Append(front, l[Len(l)])

\* the concatenation of the URL lists of a sequence of dict entries
RECURSIVE ConcatValues(_)
ConcatValues(entries) ==
    IF entries = <<>> THEN <<>>
    ELSE entries[1].v \o ConcatValues(Tail(entries))

(***************************************************************************)
(* C1: every entry returned by build_app_list has a non-empty urls list,   *)
(* whatever the input.  The first loop appends an entry for a service that *)
(* has metadata and an empty URL list, so the statement fails.             *)
(***************************************************************************)
C1_UrlsNeverEmpty ==
    Done => \A i \in DOMAIN apps : apps[i].urls # <<>>

(***************************************************************************)
(* C2: a key of service_urls whose metadata has hide true or whose         *)
(* override has Hide true yields no label-sourced entry, and no entry at   *)
(* all unless an external app claims the key; in particular metadata hide  *)
(* true with override Hide false.                                          *)
(***************************************************************************)
C2_HideIsOred ==
    Done =>
        \A k \in DictKeys(service_urls) :
            (Get(MetadataOf(k), "hide", FALSE) = TRUE \/ Get(OverrideOf(k), "Hide", FALSE) = TRUE)
            => /\ \A i \in EntriesOf(k) : apps[i].src # "label"
               /\ ~InDict(k, external_apps) => EntriesOf(k) = {}

\* a hidden service that its override un-hides and enables, with URLs
C2_Witness ==
    /\ Done
    /\ \E k \in DictKeys(service_urls) :
        /\ DictAt(service_urls, k) # <<>>
        /\ ~InDict(k, external_apps)
        /\ Get(MetadataOf(k), "hide", FALSE) = TRUE
        /\ InDict(k, overrides)
        /\ "Hide" \in DOMAIN OverrideOf(k) /\ OverrideOf(k)["Hide"] = FALSE
        /\ Get(OverrideOf(k), "Enable", FALSE) = TRUE
        /\ EntriesOf(k) = {}

C4_OverrideOnlyFailClosed ==
    Done =>
        \A k \in DictKeys(overrides) :
            (~InDict(k, service_urls) /\ ~InDict(k, external_apps)) =>
                LET o == DictAt(overrides, k)
                IN  /\ EntriesOf(k) # {} => Get(o, "Enable", FALSE) = TRUE
                    /\ ( /\ Get(o, "Enable", FALSE) = TRUE
                         /\ Get(o, "Hide", FALSE) # TRUE
                         /\ "Url" \in DOMAIN o )
                       => /\ Cardinality(EntriesOf(k)) = 1
                          /\ \A i \in EntriesOf(k) : apps[i].urls = <<o["Url"]>>

\* two override-only entities: one enabled with a Url and listed, one with a
\* Url and no Enable and omitted
C4_Witness ==
    /\ Done
    /\ \E k, h \in DictKeys(overrides) :
        /\ ~InDict(k, service_urls) /\ ~InDict(k, external_apps)
        /\ ~InDict(h, service_urls) /\ ~InDict(h, external_apps)
        /\ Get(OverrideOf(k), "Enable", FALSE) = TRUE
        /\ "Url" \in DOMAIN OverrideOf(k)
        /\ \E i \in EntriesOf(k) : apps[i].urls = <<UrlX>>
        /\ "Enable" \notin DOMAIN OverrideOf(h)
        /\ "Url" \in DOMAIN OverrideOf(h)
        /\ EntriesOf(h) = {}

(***************************************************************************)
(* C5: an external app whose enabled flag is absent or not true yields no  *)
(* entry, whatever its URLs and the keys of service_urls that match its    *)
(* name, and no line is printed for it.                                    *)
(***************************************************************************)
C5_DisabledExternalDropped ==
    Done =>
        \A k \in DictKeys(external_apps) :
            Get(DictAt(external_apps, k), "enabled", FALSE) # TRUE
            => /\ EntriesOf(k) = {}
               /\ \A i \in DOMAIN stdout : stdout[i].app # k

\* a disabled external app with URLs of its own whose name is also a service
\* that has URLs and metadata
C5_Witness ==
    /\ Done
    /\ \E k \in DictKeys(external_apps) :
        /\ "enabled" \in DOMAIN DictAt(external_apps, k)
        /\ DictAt(external_apps, k)["enabled"] = FALSE
        /\ "urls" \in DOMAIN DictAt(external_apps, k)
        /\ InDict(k, service_urls)
        /\ DictAt(service_urls, k) # <<>>
        /\ InDict(k, service_metadata)
        /\ ~no_metadata(MetadataOf(k))
        /\ EntriesOf(k) = {}

EncounterRank(e) ==
    CASE e.src = "label"    -> IndexOf(service_urls, e.key)
      [] e.src = "external" -> Len(service_urls) + IndexOf(external_apps, e.key)
      [] e.src = "override" -> Len(service_urls) + Len(external_apps)
                                   + IndexOf(overrides, e.key)

C7_SortedByNameStable ==
    Done =>
        \A i, j \in DOMAIN apps :
            i < j =>
                \/ StrLess(apps[i].name, apps[j].name)
                \/ /\ apps[i].name = apps[j].name
                   /\ EncounterRank(apps[i]) < EncounterRank(apps[j])

\* three entries: a label-sourced one and an override-only one of the same
\* name, in that order, before an external app whose lower-case name sorts
\* last although it was appended second
C7_Witness ==
    /\ Done
    /\ Len(apps) = 3
    /\ apps[1].src = "label" /\ apps[2].src = "override" /\ apps[3].src = "external"
    /\ apps[1].name = TitleAB /\ apps[2].name = TitleAB /\ apps[3].name = NameA

(***************************************************************************)
(* C8: in every returned entry the urls list has no duplicate and is in    *)
(* first-seen order of its sources: the service's URL list, the matched    *)
(* keys' URL lists followed by the app's own URLs, the override's URLs.    *)
(* It fails: an override's URLs list is copied with its duplicates, a      *)
(* service's list likewise, and an external app's URLs are sorted.         *)
(***************************************************************************)
SourceUrls(e) ==
    CASE e.src = "label"    -> DictAt(service_urls, e.key)
      [] e.src = "external" ->
            ConcatValues(SelectSeq(service_urls,
                LAMBDA s : s.k # <<>> /\ ( \/ e.key = s.k
                                           \/ Contains(s.k, e.key)
                                           \/ Contains(e.key, s.k) )))
            \o Get(DictAt(external_apps, e.key), "urls", <<>>)
      [] e.src = "override" ->
            IF "Url" \in DOMAIN OverrideOf(e.key) THEN <<OverrideOf(e.key)["Url"]>>
            ELSE Get(OverrideOf(e.key), "URLs", <<>>)

C8_UrlsDeduplicatedFirstSeen ==
    Done =>
        \A i \in DOMAIN apps :
            /\ NoDuplicates(apps[i].urls)
            /\ apps[i].urls = FirstSeen(SourceUrls(apps[i]))

(***************************************************************************)
(* C10: the three loops take their entries from disjoint sets of keys, so  *)
(* no two returned entries were built from the same key; one service with  *)
(* metadata, one enabled external app with a URL and one enabled           *)
(* override-only record with a Url give exactly three entries.             *)
(***************************************************************************)
OneOfEach ==
    /\ Len(service_urls) = 1 /\ Len(external_apps) = 1 /\ Len(overrides) = 1
    /\ service_urls[1].k # external_apps[1].k
    /\ service_urls[1].k # overrides[1].k
    /\ external_apps[1].k # overrides[1].k
    /\ ~EndsWith(service_urls[1].k, AtDocker) /\ ~EndsWith(service_urls[1].k, AtFile)
    /\ DOMAIN MetadataOf(service_urls[1].k) # {}
    /\ Get(MetadataOf(service_urls[1].k), "hide", FALSE) # TRUE
    /\ Get(external_apps[1].v, "enabled", FALSE) = TRUE
    /\ Get(external_apps[1].v, "urls", <<>>) # <<>>
    /\ Get(overrides[1].v, "Enable", FALSE) = TRUE
    /\ Get(overrides[1].v, "Hide", FALSE) # TRUE
    /\ "Url" \in DOMAIN overrides[1].v

C10_OneEntryPerKey ==
    Done =>
        /\ \A i, j \in DOMAIN apps : i # j => apps[i].key # apps[j].key
        /\ \A i \in DOMAIN apps :
            /\ apps[i].src = "label" =>
                  InDict(apps[i].key, service_urls) /\ ~InDict(apps[i].key, external_apps)
            /\ apps[i].src = "external" => InDict(apps[i].key, external_apps)
            /\ apps[i].src = "override" =>
                  /\ InDict(apps[i].key, overrides)
                  /\ ~InDict(apps[i].key, service_urls)
                  /\ ~InDict(apps[i].key, external_apps)
        /\ OneOfEach =>
              /\ Len(apps) = 3
              /\ {apps[i].src : i \in DOMAIN apps} = {"label", "external", "override"}

\* one service, one external app and one override-only record, all listed
C10_Witness ==
    /\ Done
    /\ OneOfEach
    /\ service_urls[1].v # <<>>
    /\ Len(apps) = 3


(***************************************************************************)
(* C9: whatever the router table and the containers' labels are, the map   *)
(* that build_service_url_map returns (the router table's map completed    *)
(* with the label-derived keys) has no key equal to "router" compared      *)
(* case-insensitively, and no entry of the returned list was built from    *)
(* such a key.                                                             *)
(***************************************************************************)
C9_NoRouterKey ==
    /\ pc \in {"call", "done"} =>
           \A k \in DictKeys(service_urls) : Lower(k) # RouterWord
    /\ Done => \A i \in DOMAIN apps :
                   apps[i].src = "label" => Lower(apps[i].key) # RouterWord


(***************************************************************************)
(* C11: a key of service_urls that is also the name of an external app     *)
(* yields no label-sourced and no override-only entry, whatever its        *)
(* metadata and its override record: every entry built from it is the      *)
(* external app's.  When the app is disabled, or is enabled and finds no   *)
(* URL, the key yields no entry at all.                                    *)
(***************************************************************************)
C11_ExternalClaimsKey ==
    Done =>
        \A k \in DictKeys(service_urls) \cap DictKeys(external_apps) :
            LET cfg == DictAt(external_apps, k)
                matched == {i \in DOMAIN service_urls :
                                Contains(service_urls[i].k, k) \/ Contains(k, service_urls[i].k)}
            IN  /\ \A i \in EntriesOf(k) : apps[i].src = "external"
                /\ Get(cfg, "enabled", FALSE) # TRUE => EntriesOf(k) = {}
                /\ ( /\ Get(cfg, "urls", <<>>) = <<>>
                     /\ \A i \in matched : service_urls[i].v = <<>> )
                   => EntriesOf(k) = {}

\* a service with URLs and shown metadata whose key is the name of a
\* disabled external app: nothing is listed for it
C11_Witness ==
    /\ Done
    /\ \E k \in DictKeys(service_urls) \cap DictKeys(external_apps) :
        /\ DictAt(service_urls, k) # <<>>
        /\ ~no_metadata(MetadataOf(k))
        /\ Get(MetadataOf(k), "hide", FALSE) = FALSE
        /\ Get(OverrideOf(k), "Hide", FALSE) = FALSE
        /\ Get(OverrideOf(k), "Enable", TRUE) = TRUE
        /\ "enabled" \in DOMAIN DictAt(external_apps, k)
        /\ DictAt(external_apps, k)["enabled"] = FALSE
        /\ EntriesOf(k) = {}


(***************************************************************************)
(* C12: an enabled external app named n that has no URLs of its own gets   *)
(* exactly the union of the URL lists of the non-empty keys k of           *)
(* service_urls such that n = k, n occurs in k, k occurs in n, k starts    *)
(* with n + "-" or n starts with k + "-"; a URL that several matched keys  *)
(* carry is listed once; when the union is empty there is no entry.        *)
(***************************************************************************)
FuzzyUrls(n) ==
    UNION { Range(service_urls[i].v) :
              i \in { j \in DOMAIN service_urls :
                        /\ service_urls[j].k # <<>>
                        /\ \/ n = service_urls[j].k
                           \/ Contains(service_urls[j].k, n)
                           \/ Contains(n, service_urls[j].k)
                           \/ StartsWith(service_urls[j].k, n \o <<"-">>)
                           \/ StartsWith(n, service_urls[j].k \o <<"-">>) } }

C12_FuzzyUnion ==
    Done =>
        \A n \in DictKeys(external_apps) :
            ( /\ Get(DictAt(external_apps, n), "enabled", FALSE) = TRUE
              /\ "urls" \notin DOMAIN DictAt(external_apps, n) )
            => IF FuzzyUrls(n) = {} THEN EntriesOf(n) = {}
               ELSE /\ Cardinality(EntriesOf(n)) = 1
                    /\ \A i \in EntriesOf(n) :
                           /\ Range(apps[i].urls) = FuzzyUrls(n)
                           /\ NoDuplicates(apps[i].urls)

\* an enabled external app without URLs whose name is no key of service_urls
\* and occurs in two keys that share a URL: the URL is listed once
C12_Witness ==
    /\ Done
    /\ \E n \in DictKeys(external_apps) :
        /\ Get(DictAt(external_apps, n), "enabled", FALSE) = TRUE
        /\ "urls" \notin DOMAIN DictAt(external_apps, n)
        /\ ~InDict(n, service_urls)
        /\ \E k, h \in DictKeys(service_urls) :
              /\ k # h
              /\ Contains(k, n) /\ Contains(h, n)
              /\ Range(DictAt(service_urls, k)) \cap Range(DictAt(service_urls, h)) # {}
        /\ \E i \in EntriesOf(n) :
              /\ apps[i].src = "external"
              /\ Len(apps[i].urls) = Cardinality(FuzzyUrls(n))
              /\ Len(apps[i].urls) = 2


(***************************************************************************)
(* C13 as stated: an enabled external app that has URLs of its own is      *)
(* listed with exactly those URLs, without duplicates, and the URLs of     *)
(* the keys of service_urls that match its name are not added.  It fails:  *)
(* the matching loop runs for every enabled app.                           *)
(***************************************************************************)
C13_ExplicitUrlsOnly ==
    Done =>
        \A n \in DictKeys(external_apps) :
            ( /\ Get(DictAt(external_apps, n), "enabled", FALSE) = TRUE
              /\ Get(DictAt(external_apps, n), "urls", <<>>) # <<>> )
            => \A i \in EntriesOf(n) :
                   /\ Range(apps[i].urls) = Range(DictAt(external_apps, n)["urls"])
                   /\ NoDuplicates(apps[i].urls)

(***************************************************************************)
(* C13 as amended: the URLs of an enabled external app are additive.  The  *)
(* app is listed once, with the union of its own URLs and the URLs of all  *)
(* the keys of service_urls that match its name, each URL once, in         *)
(* ascending order.                                                        *)
(***************************************************************************)
C13_ExplicitUrlsAdditive ==
    Done =>
        \A n \in DictKeys(external_apps) :
            ( /\ Get(DictAt(external_apps, n), "enabled", FALSE) = TRUE
              /\ Get(DictAt(external_apps, n), "urls", <<>>) # <<>> )
            => /\ Cardinality(EntriesOf(n)) = 1
               /\ \A i \in EntriesOf(n) :
                   /\ Range(apps[i].urls) =
                          Range(DictAt(external_apps, n)["urls"]) \cup FuzzyUrls(n)
                   /\ \A a, b \in DOMAIN apps[i].urls :
                          a < b => StrLess(apps[i].urls[a], apps[i].urls[b])

\* an enabled external app with one URL of its own whose name contains a key
\* of service_urls that carries another URL: both URLs are listed
C13_Witness ==
    /\ Done
    /\ \E n \in DictKeys(external_apps) :
        /\ Get(DictAt(external_apps, n), "enabled", FALSE) = TRUE
        /\ Get(DictAt(external_apps, n), "urls", <<>>) = <<UrlY>>
        /\ ~InDict(n, service_urls)
        /\ \E k \in DictKeys(service_urls) :
              /\ Contains(n, k)
              /\ DictAt(service_urls, k) = <<UrlX>>
        /\ \E i \in EntriesOf(n) : apps[i].urls = <<UrlX, UrlY>>


(***************************************************************************)
(* C14: an external app declared with a router reference (the label        *)
(* traefik-home.app.<name>.router) is resolved by looking the reference    *)
(* up as a key of service_urls: when the key is absent the app is not      *)
(* listed, and when it is present the app's URLs are that key's URLs and   *)
(* the app's own.  It fails: the label is not read, and the app is         *)
(* resolved by name like any other.                                        *)
(***************************************************************************)
C14_RouterReferenceExact ==
    (Done /\ own.status = "found") =>
        \A i \in DOMAIN own.labels :
            LET parts == Split(own.labels[i].k, ".")
                ref   == own.labels[i].v
            IN  ( /\ StartsWith(own.labels[i].k, AppPrefix)
                  /\ Len(parts) = 4
                  /\ parts[4] = RouterWord )
                => /\ ~InDict(ref, service_urls) => EntriesOf(parts[3]) = {}
                   /\ InDict(ref, service_urls) =>
                          \A e \in EntriesOf(parts[3]) :
                              Range(apps[e].urls) =
                                  Range(DictAt(service_urls, ref))
                                  \cup Range(Get(DictAt(external_apps, parts[3]), "urls", <<>>))


(***************************************************************************)
(* C15: in the entry of an external app, every one of Name, Icon,          *)
(* Description, Category and Badge that the override record of the app's   *)
(* name gives is the entry's value, before the value of the declaration.   *)
(* It fails: the second loop never reads the overrides.                    *)
(***************************************************************************)
C15_OverrideWinsExternal ==
    Done =>
        \A i \in DOMAIN apps :
            apps[i].src = "external" =>
                LET o == OverrideOf(apps[i].key)
                IN  /\ "Name" \in DOMAIN o => apps[i].name = o["Name"]
                    /\ "Icon" \in DOMAIN o => apps[i].icon = o["Icon"]
                    /\ "Description" \in DOMAIN o => apps[i].description = o["Description"]
                    /\ "Category" \in DOMAIN o => apps[i].category = o["Category"]
                    /\ "Badge" \in DOMAIN o => apps[i].badge = o["Badge"]


(***************************************************************************)
(* C16: a key of service_urls that is no router key and no external app,   *)
(* has a metadata record and is not hidden yields its label-sourced entry  *)
(* unless its override record has Enable false, and then it yields none.   *)
(* Only the override's Enable decides: the enable value of the metadata,   *)
(* "false" included, changes nothing.                                      *)
(***************************************************************************)
C16_EnableFromOverrideOnly ==
    Done =>
        \A k \in DictKeys(service_urls) :
            ( /\ ~EndsWith(k, AtDocker) /\ ~EndsWith(k, AtFile)
              /\ ~InDict(k, external_apps)
              /\ DOMAIN MetadataOf(k) # {}
              /\ Get(MetadataOf(k), "hide", FALSE) = FALSE
              /\ Get(OverrideOf(k), "Hide", FALSE) = FALSE )
            => IF Get(OverrideOf(k), "Enable", TRUE) = FALSE
               THEN EntriesOf(k) = {}
               ELSE /\ Cardinality(EntriesOf(k)) = 1
                    /\ \A i \in EntriesOf(k) : apps[i].src = "label"

\* a shown service whose metadata has enable "false" is listed when its
\* override record says nothing about Enable
C16_Witness ==
    /\ Done
    /\ \E k \in DictKeys(service_urls) :
        /\ Get(MetadataOf(k), "enable", EmptyStr) = LabelFalse
        /\ Get(MetadataOf(k), "hide", TRUE) = FALSE
        /\ "Enable" \notin DOMAIN OverrideOf(k)
        /\ \E i \in EntriesOf(k) : apps[i].src = "label"


(***************************************************************************)
(* C17: the category of an entry is the explicit one when there is one     *)
(* (the override's Category for a label-sourced or override-only entry,    *)
(* the declaration's category for an external app), and otherwise "Admin"  *)
(* when the admin flag of the entity (metadata is_admin, declaration       *)
(* is_admin; an override-only entity has none) is true and "Apps" when it  *)
(* is not.                                                                 *)
(***************************************************************************)
\* the record that can give the entry a category
CategorySource(e) ==
    IF e.src = "external"
    THEN [has |-> "category" \in DOMAIN DictAt(external_apps, e.key),
          value |-> Get(DictAt(external_apps, e.key), "category", <<>>)]
    ELSE [has |-> "Category" \in DOMAIN OverrideOf(e.key),
          value |-> Get(OverrideOf(e.key), "Category", <<>>)]

AdminFlag(e) ==
    CASE e.src = "label"    -> Get(MetadataOf(e.key), "is_admin", FALSE)
      [] e.src = "external" -> Get(DictAt(external_apps, e.key), "is_admin", FALSE)
      [] e.src = "override" -> FALSE

IsRedirectName(name) == Contains(Lower(name), <<"r", "e", "d", "i", "r", "e", "c", "t">>)

\* a response without the routers named "...redirect..."
WithoutRedirectRouters(response) ==
    IF ~response.ok THEN response
    ELSE [ok |-> TRUE,
          body |-> [kind |-> response.body.kind,
                    items |-> IF response.body.kind = "dict"
                              THEN SelectSeq(response.body.items,
                                             LAMBDA e : ~IsRedirectName(e.k))
                              ELSE SelectSeq(response.body.items,
                                             LAMBDA r : ~IsRedirectName(Get(r, "name", <<>>)))]]

\* a listing without the rule labels of the routers named "...redirect..."
WithoutRedirectLabels(listing) ==
    IF ~listing.ok THEN listing
    ELSE [ok |-> TRUE,
          list |-> [i \in DOMAIN listing.list |->
                      [name |-> listing.list[i].name,
                       labels |-> SelectSeq(listing.list[i].labels,
                                      LAMBDA l : ~( /\ StartsWith(l.k, RoutersPrefix)
                                                    /\ EndsWith(l.k, RuleSuffix)
                                                    /\ IsRedirectName(Split(l.k, ".")[4]) ))]]]

C18_RedirectContributesNothing ==
    pc \in {"call", "done"} =>
        service_urls = build_service_url_map(WithoutRedirectLabels(containers), traefik_api,
                                             WithoutRedirectRouters(primary),
                                             WithoutRedirectRouters(fallback)).urls



AnsweredRouters ==
    IF ~traefik_api THEN <<>>
    ELSE IF primary.ok THEN router_items(primary.body)
    ELSE IF fallback.ok THEN router_items(fallback.body)
    ELSE <<>>

RouterUrls(r) ==
    parse_traefik_rule(Get(r.v, "rule", <<>>), router_protocol(Get(r.v, "entryPoints", <<>>)))

BeforeAt(name) == SubSeq(name, 1, (CHOOSE n \in 0..Len(name) :
                                      /\ \A j \in 1..n : name[j] # "@"
                                      /\ n < Len(name) => name[n + 1] = "@"))

RouterStored(r) ==
    /\ RouterUrls(r) # <<>>
    /\ Lower(BeforeAt(Get(r.v, "service", <<>>))) # <<"r", "o", "u", "t", "e", "r">>
    /\ Lower(r.k) # <<"r", "o", "u", "t", "e", "r">>

RouterKeys(r) == {BeforeAt(Get(r.v, "service", <<>>)), r.k, BeforeAt(r.k)} \ {<<>>}

C20_ThreeKeysPerRouter ==
    (pc \in {"call", "done"} /\ (~containers.ok \/ containers.list = <<>>)) =>
        LET stored == {i \in DOMAIN AnsweredRouters : RouterStored(AnsweredRouters[i])}
        IN  /\ DictKeys(service_urls) = UNION {RouterKeys(AnsweredRouters[i]) : i \in stored}
            /\ \A e \in DOMAIN service_urls :
                   Range(service_urls[e].v) =
                       UNION { Range(RouterUrls(AnsweredRouters[i])) :
                                 i \in {j \in stored :
                                          service_urls[e].k \in RouterKeys(AnsweredRouters[j])} }

\* one router whose service, identifier and base name are three names, and
\* one whose base name is its service: three keys and two keys
C20_Witness ==
    /\ pc = "call"
    /\ ~containers.ok \/ containers.list = <<>>
    /\ \E i, j \in DOMAIN AnsweredRouters :
        /\ RouterStored(AnsweredRouters[i]) /\ RouterStored(AnsweredRouters[j])
        /\ Cardinality(RouterKeys(AnsweredRouters[i])) = 3
        /\ Cardinality(RouterKeys(AnsweredRouters[j])) = 2
        /\ "service" \in DOMAIN AnsweredRouters[j].v
        /\ RouterKeys(AnsweredRouters[i]) \cup RouterKeys(AnsweredRouters[j])
               = DictKeys(service_urls)
    /\ Len(service_urls) = 4


(***************************************************************************)
(* C21: in the map of build_service_url_map, which is the map of           *)
(* fetch_traefik_routers when no container is listed, the URL list of      *)
(* every key has no URL twice and holds the URLs in the order in which     *)
(* they were first contributed: by the routers of the answered table in    *)
(* table order, then by the rule labels of the containers in listing and   *)
(* label order.                                                            *)
(***************************************************************************)
\* the URLs the routers of the table contribute to key k, in order
RECURSIVE TableUrls(_, _)
TableUrls(k, routers) ==
    IF routers = <<>> THEN <<>>
    ELSE (IF RouterStored(routers[1]) /\ k \in RouterKeys(routers[1])
          THEN RouterUrls(routers[1]) ELSE <<>>)
         \o TableUrls(k, Tail(routers))

\* the URLs the rule labels of one container contribute to key k, in order
RECURSIVE LabelUrls(_, _, _)
LabelUrls(k, c, i) ==
    IF i > Len(c.labels) THEN <<>>
    ELSE LET key  == c.labels[i].k
             name == Split(key, ".")[4]
             svc  == DictGet(c.labels, ComposeServiceLabel, c.name)
         IN  (IF /\ StartsWith(key, RoutersPrefix) /\ EndsWith(key, RuleSuffix)
                 /\ ~IsRedirectName(name)
                 /\ svc # TraefikHomeName
                 /\ k \in {svc, name \o <<"@", "d", "o", "c", "k", "e", "r">>}
              THEN parse_traefik_rule(c.labels[i].v, label_protocol(c.labels, name))
              ELSE <<>>)
             \o LabelUrls(k, c, i + 1)

RECURSIVE ListingUrls(_, _)
ListingUrls(k, list) ==
    IF list = <<>> THEN <<>>
    ELSE LabelUrls(k, list[1], 1) \o ListingUrls(k, Tail(list))

Contributions(k) ==
    TableUrls(k, AnsweredRouters)
    \o (IF containers.ok THEN ListingUrls(k, containers.list) ELSE <<>>)

C21_MapDeduplicatedFirstSeen ==
    pc \in {"call", "done"} =>
        \A e \in DOMAIN service_urls :
            /\ NoDuplicates(service_urls[e].v)
            /\ service_urls[e].v = FirstSeen(Contributions(service_urls[e].k))

\* a key to which the same URL was contributed twice, and a key whose two
\* URLs are listed in the order of their contribution, which is not the
\* ascending one
C21_Witness ==
    /\ pc = "call"
    /\ \E k, h \in DictKeys(service_urls) :
        /\ ~NoDuplicates(Contributions(k))
        /\ Len(DictAt(service_urls, k)) = 1
        /\ DictAt(service_urls, h) = <<UrlHttpsH, UrlHttpH>>

(***************************************************************************)
(* One application of parse_traefik_rule.  A rule is written from its      *)
(* branches: each branch is one atom, Host, HostRegexp or PathPrefix,      *)
(* around a quoted hostname, with or without its closing parenthesis, and  *)
(* with or without a second atom joined by && after it.                    *)
(***************************************************************************)

MaxBranches == 2

HostA == <<"a", ".", "c", "o", "m">>
HostB == <<"b", ".", "c", "o", "m">>
AndPathPrefix == <<"&", "&", " ", "P", "a", "t", "h", "P", "r", "e", "f", "i", "x", "(", "^", "/", "x", "^", ")">>
Quotes == {"^", "'", "\""}
Separators == { <<"|", "|">>, <<"|">> }

Branches ==
    { b \in [atom : {"Host", "HostRegexp", "PathPrefix"}, quote : Quotes,
             host : {HostA, HostB}, closed : BOOLEAN, tail : BOOLEAN] :
        /\ b.atom = "PathPrefix" => b.closed /\ ~b.tail
        /\ b.atom = "HostRegexp" => ~b.tail
        /\ b.atom # "Host" => b.quote = "^" /\ b.host = HostA
        /\ b.quote # "^" => b.closed /\ ~b.tail
        /\ b.host = HostB => b.quote = "^" /\ b.closed /\ ~b.tail }

AtomName(b) ==
    CASE b.atom = "Host"       -> <<"H", "o", "s", "t">>
      [] b.atom = "HostRegexp" -> <<"H", "o", "s", "t", "R", "e", "g", "e", "x", "p">>
      [] b.atom = "PathPrefix" -> <<"P", "a", "t", "h", "P", "r", "e", "f", "i", "x">>

\* the text of a branch
BranchText(b) ==
    AtomName(b) \o <<"(", b.quote>> \o b.host \o <<b.quote>>
        \o (IF b.closed THEN <<")">> ELSE <<>>)
        \o (IF b.tail THEN <<" ">> \o AndPathPrefix ELSE <<>>)

\* the branches joined by the separator, padded with blanks as rules are written
RECURSIVE RuleText(_, _)
RuleText(bs, sep) ==
    IF Len(bs) = 1 THEN BranchText(bs[1])
    ELSE BranchText(bs[1]) \o <<" ">> \o sep \o <<" ">> \o RuleText(Tail(bs), sep)

RECURSIVE BranchLists(_)
BranchLists(n) ==
    IF n = 0 THEN {<<>>}
    ELSE {<<b>> \o l : b \in Branches, l \in BranchLists(n - 1)}

InitRule ==
    /\ \E n \in 1..MaxBranches : parsed_branches \in BranchLists(n)
    /\ \E sep \in Separators : parsed_rule = RuleText(parsed_branches, sep)
    /\ parsed_protocol \in {Http, Https}
    /\ parsed_urls = <<>>
    /\ OnlyRule

\* urls = parse_traefik_rule(rule, protocol)
ParseTraefikRule ==
    /\ parsed_urls = <<>>
    /\ parsed_urls' = <<parse_traefik_rule(parsed_rule, parsed_protocol)>>
    /\ UNCHANGED <<notRuleVars, parsed_branches, parsed_rule, parsed_protocol>>

NextRule == ParseTraefikRule

SpecRule == InitRule /\ [][NextRule]_vars

(***************************************************************************)
(* C22                                                                     *)
(***************************************************************************)

\* What the rule's branch is to contribute: one URL for a Host atom that is
\* closed, nothing for a branch without a Host or HostRegexp atom and for an
\* atom that is not closed.  A closed HostRegexp atom is left to the code.
BranchUrls(b, scheme) ==
    IF b.atom = "Host" /\ b.closed THEN <<scheme \o SchemeSep \o b.host>>
    ELSE IF b.atom = "PathPrefix" \/ ~b.closed THEN <<>>
    ELSE parse_part(BranchText(b), scheme)

\* C22: parse_traefik_rule returns, in branch order, exactly one URL
\* scheme://hostname for each branch holding a well-formed Host atom with a
\* quoted hostname, and nothing for a branch with no Host/HostRegexp atom or
\* with an atom lacking its closing parenthesis.
C22_OneUrlPerHostBranch ==
    parsed_urls # <<>> =>
        parsed_urls[1] = Flatten([i \in DOMAIN parsed_branches |->
                                     BranchUrls(parsed_branches[i], parsed_protocol)])

\* The same for rules in which no atom lacks its closing parenthesis while a
\* later atom of the branch has one.
C22_ClosedOrLastAtom ==
    (parsed_urls # <<>> /\ \A i \in DOMAIN parsed_branches :
                               parsed_branches[i].closed \/ ~parsed_branches[i].tail) =>
        parsed_urls[1] = Flatten([i \in DOMAIN parsed_branches |->
                                     BranchUrls(parsed_branches[i], parsed_protocol)])

\* The rule Host(`a.com`) || Host(`b.com`) was parsed with scheme https.
C22_Example ==
    /\ parsed_rule = <<"H", "o", "s", "t", "(", "^", "a", ".", "c", "o", "m", "^", ")", " ", "|", "|", " ", "H", "o", "s", "t", "(", "^", "b", ".", "c", "o", "m", "^", ")">>
    /\ parsed_protocol = Https
    /\ parsed_urls = << <<<<"h", "t", "t", "p", "s", ":", "/", "/", "a", ".", "c", "o", "m">>, <<"h", "t", "t", "p", "s", ":", "/", "/", "b", ".", "c", "o", "m">>>> >>

(***************************************************************************)
(* The scheme the two collectors infer for one router with the same rule   *)
(* and the same entrypoint names: fetch_traefik_routers reads the names    *)
(* from the router's entryPoints list, build_service_url_map from the      *)
(* comma-separated traefik.http.routers.<name>.entrypoints label.          *)
(***************************************************************************)

MaxEntryPoints == 2

EntryPointNames == { <<"w", "e", "b">>, <<"w", "e", "b", "s", "e", "c", "u", "r", "e">>, <<"W", "e", "b", "S", "e", "c", "u", "r", "e">>, <<"s", "e", "c", "u", "r", "e">>, <<"h", "t", "t", "p", "s">>, <<"i", "n", "t", "e", "r", "n", "a", "l">> }

RECURSIVE EntryPointLists(_)
EntryPointLists(n) ==
    IF n = 0 THEN {<<>>}
    ELSE {<<e>> \o l : e \in EntryPointNames, l \in EntryPointLists(n - 1)}

\* ",".join(names)
RECURSIVE JoinComma(_)
JoinComma(names) ==
    IF names = <<>> THEN <<>>
    ELSE IF Len(names) = 1 THEN names[1]
    ELSE names[1] \o <<",">> \o JoinComma(Tail(names))

\* the router table holding the router
SchemeRouterTable(names) ==
    [kind |-> "dict",
     items |-> <<[k |-> ServiceADocker,
                  v |-> Field("rule", RuleH) @@ Field("entryPoints", names)]>>]

\* the labels declaring the router
SchemeLabels(names) ==
    Label(LabelRuleR, RuleH)
        \o (IF names = <<>> THEN <<>> ELSE Label(LabelEntrypointsR, JoinComma(names)))

InitScheme ==
    /\ \E n \in 0..MaxEntryPoints : entry_points \in EntryPointLists(n)
    /\ fetched_urls = <<>>
    /\ labelled_urls = <<>>
    /\ OnlyScheme

\* fetch_traefik_routers(traefik_api_url) on a proxy that has the router
FetchTraefikRouters ==
    /\ fetched_urls = <<>>
    /\ fetched_urls' = <<fetch_traefik_routers(TRUE,
                            [ok |-> TRUE, body |-> SchemeRouterTable(entry_points)],
                            [ok |-> FALSE]).urls>>
    /\ UNCHANGED <<notSchemeVars, entry_points, labelled_urls>>

\* build_service_url_map(docker_client, None) on a container that has the labels
LabelsServiceUrlMap ==
    /\ labelled_urls = <<>>
    /\ labelled_urls' = <<build_service_url_map(
                             [ok |-> TRUE,
                              list |-> <<[name |-> NameAB,
                                          labels |-> SchemeLabels(entry_points)]>>],
                             FALSE, [ok |-> FALSE], [ok |-> FALSE]).urls>>
    /\ UNCHANGED <<notSchemeVars, entry_points, fetched_urls>>

NextScheme == FetchTraefikRouters \/ LabelsServiceUrlMap

SpecScheme == InitScheme /\ [][NextScheme]_vars

(***************************************************************************)
(* C23                                                                     *)
(***************************************************************************)

\* some entrypoint name contains "secure", "https" or "websecure"
HasSecureEntryPoint ==
    \E i \in DOMAIN entry_points :
        \/ Contains(Lower(entry_points[i]), <<"s", "e", "c", "u", "r", "e">>)
        \/ Contains(Lower(entry_points[i]), <<"h", "t", "t", "p", "s">>)
        \/ Contains(Lower(entry_points[i]), <<"w", "e", "b", "s", "e", "c", "u", "r", "e">>)

\* every URL list of the map is the rule's host under the scheme
AllUnder(map, url) == map # <<>> /\ \A i \in DOMAIN map : map[i].v = <<url>>

\* the scheme is https iff some entrypoint name is secure, http otherwise
SchemeOf(map) == AllUnder(map, IF HasSecureEntryPoint THEN UrlHttpsH ELSE UrlHttpH)

\* C23: the scheme inferred for a router is https if and only if at least
\* one of its entrypoint names contains "secure", "https" or "websecure"
\* (case-insensitive), and http otherwise; fetch_traefik_routers and
\* build_service_url_map infer the same scheme from the same names.
C23_SameSchemeBothCollectors ==
    /\ fetched_urls # <<>> => SchemeOf(fetched_urls[1])
    /\ labelled_urls # <<>> => SchemeOf(labelled_urls[1])

\* the half of C23 that is about the router table
C23_RouterTableScheme == fetched_urls # <<>> => SchemeOf(fetched_urls[1])

\* Both collectors ran on a router with a secure and a plain entrypoint.
C23_Witness ==
    /\ fetched_urls # <<>>
    /\ labelled_urls # <<>>
    /\ entry_points = <<<<"w", "e", "b">>, <<"W", "e", "b", "S", "e", "c", "u", "r", "e">>>>
    /\ AllUnder(fetched_urls[1], UrlHttpsH)
    /\ AllUnder(labelled_urls[1], UrlHttpsH)

(***************************************************************************)
(* C24                                                                     *)
(***************************************************************************)

RecognizedKeys ==
    {HomeIconLabel, HomeAliasLabel, HomeHideLabel, HomeAdminLabel, HomeEnableLabel}

\* the service names of the listing and the keys of the metadata map
ListedNames ==
    {container_service_name(containers.list[i]) : i \in DOMAIN containers.list}
        \cup DictKeys(service_metadata)

\* some listed container other than the page generator's, of service name n,
\* has a label whose key satisfies Test
OptedIn(n, Test(_)) ==
    /\ n # TraefikHomeName
    /\ \E i \in DOMAIN containers.list :
           /\ container_service_name(containers.list[i]) = n
           /\ \E j \in DOMAIN containers.list[i].labels :
                  Test(containers.list[i].labels[j].k)

IsRecognizedKey(key) == key \in RecognizedKeys

IsHomeKey(key) == StartsWith(key, HomePrefix)

Unbound == [map |-> "unbound", key |-> <<>>]

ObjectOf(map, key) == [map |-> map, key |-> key]

\* the heap holding the list objects of the arguments
RECURSIVE heap_of_lists(_, _, _, _)
heap_of_lists(h, map, d, field) ==
    IF d = <<>> THEN h
    ELSE heap_of_lists(
             IF field = "" THEN DictSet(h, ObjectOf(map, d[1].k), d[1].v)
             ELSE IF field \in DOMAIN d[1].v
                  THEN DictSet(h, ObjectOf(map, d[1].k), d[1].v[field])
                  ELSE h,
             map, Tail(d), field)

heap_of_arguments(su, ov, ea) ==
    heap_of_lists(heap_of_lists(heap_of_lists(<<>>, "service_urls", su, ""),
                                "overrides", ov, "URLs"),
                  "external_apps", ea, "urls")

\* the arguments as the heap has them
lists_of_heap(h, map, d, field) ==
    [i \in DOMAIN d |->
        IF field = "" THEN [k |-> d[i].k, v |-> DictAt(h, ObjectOf(map, d[i].k))]
        ELSE IF field \in DOMAIN d[i].v
             THEN [k |-> d[i].k,
                   v |-> SetField(d[i].v, field, DictAt(h, ObjectOf(map, d[i].k)))]
             ELSE d[i]]

\* for ..., urls in service_urls.items(): the name is bound to the argument's list
bind_urls(run, object) == [run EXCEPT !.urls = object]

\* mutant of new_list: the value is stored into the object the name is bound to
Mutant_new_list(run, value) ==
    IF run.urls = Unbound
    THEN [heap |-> DictSet(run.heap, ObjectOf("local", <<>>), value),
          urls |-> ObjectOf("local", <<>>), fresh |-> 1]
    ELSE [run EXCEPT !.heap = DictSet(run.heap, run.urls, value)]

\* urls = set(), urls = sorted(list(...)), urls = []: a new object, and the
\* name is bound to it
new_list(run, value) ==
    LET object == ObjectOf("local", [i \in 1..run.fresh |-> "*"])
    IN  [heap |-> DictSet(run.heap, object, value), urls |-> object,
         fresh |-> run.fresh + 1]

\* urls.update(...), urls.extend(...), urls.append(...): the object the name
\* is bound to grows
extend_urls(run, values) ==
    [run EXCEPT !.heap = DictSet(run.heap, run.urls, DictAt(run.heap, run.urls) \o values)]

\* the first loop binds urls to each list of service_urls in turn
RECURSIVE heap_label_loop(_, _)
heap_label_loop(run, su) ==
    IF su = <<>> THEN run
    ELSE heap_label_loop(bind_urls(run, ObjectOf("service_urls", su[1].k)), Tail(su))

\* urls.update(url_list) for each key that matches
RECURSIVE heap_update_matched(_, _, _)
heap_update_matched(run, app_name, su) ==
    IF su = <<>> THEN run
    ELSE heap_update_matched(
             IF external_matches(app_name, su[1].k)
             THEN extend_urls(run, DictAt(run.heap, ObjectOf("service_urls", su[1].k)))
             ELSE run,
             app_name, Tail(su))

\* the body of the second loop for one app
heap_external_step(run, app_name, app_config, su) ==
    IF ~external_enabled(app_config) THEN run
    ELSE LET found  == heap_update_matched(new_list(run, <<>>), app_name, su)
             sorted == new_list(found, SortedList(Range(DictAt(found.heap, found.urls))))
         IN  IF "urls" \notin DOMAIN app_config THEN sorted
             ELSE LET extended == extend_urls(sorted,
                                      DictAt(sorted.heap, ObjectOf("external_apps", app_name)))
                  IN  new_list(extended,
                               SortedList(Range(DictAt(extended.heap, extended.urls))))

RECURSIVE heap_external_loop(_, _, _)
heap_external_loop(run, ea, su) ==
    IF ea = <<>> THEN run
    ELSE heap_external_loop(heap_external_step(run, ea[1].k, ea[1].v, su), Tail(ea), su)

\* the body of the third loop for one override
heap_override_step(run, service_name, override, su, ea) ==
    IF ~is_override_only(service_name, su, ea) THEN run
    ELSE IF Get(override, "Hide", FALSE) \/ ~override_enabled(override) THEN run
    ELSE LET empty == new_list(run, <<>>)
         IN  IF "Url" \in DOMAIN override THEN extend_urls(empty, <<override["Url"]>>)
             ELSE IF "URLs" \in DOMAIN override
             THEN extend_urls(empty, DictAt(empty.heap, ObjectOf("overrides", service_name)))
             ELSE empty

RECURSIVE heap_override_loop(_, _, _, _)
heap_override_loop(run, ov, su, ea) ==
    IF ov = <<>> THEN run
    ELSE heap_override_loop(heap_override_step(run, ov[1].k, ov[1].v, su, ea),
                            Tail(ov), su, ea)

\* the heap after build_app_list(su, sm, ov, ea) ran on heap h
heap_after_build_app_list(h, su, ov, ea) ==
    LET start  == [heap |-> h, urls |-> Unbound, fresh |-> 0]
        first  == heap_label_loop(start, su)
        second == heap_external_loop(first, ea, su)
        third  == heap_override_loop(second, ov, su, ea)
    IN  third.heap

(***************************************************************************)
(* Repeated invocations of build_app_list.  Between two invocations the    *)
(* caller may pass other arguments.                                        *)
(***************************************************************************)

MaxCalls == 3

\* arguments in which every kind of URL list occurs and every loop works on
\* a list: a matched external app with URLs of its own, an override-only
\* entry with URLs
PureArguments ==
    { <<su, sm, ov, ea>> :
        su \in DictsUpTo({NameAB, NameC}, {<<UrlX>>, <<UrlY, UrlX>>}, 2),
        sm \in { <<>>, <<[k |-> NameAB, v |-> Metadata(EmptyStr, EmptyStr, FALSE, FALSE)]>> },
        ov \in { <<>>,
                 <<[k |-> NameAFile, v |-> Field("Enable", TRUE) @@ Field("URLs", <<UrlY, UrlX>>)]>>,
                 <<[k |-> NameAFile, v |-> Field("Enable", TRUE) @@ Field("Url", UrlX)]>> },
        ea \in { <<>>,
                 <<[k |-> NameA, v |-> Field("enabled", TRUE)]>>,
                 <<[k |-> NameA, v |-> Field("enabled", TRUE) @@ Field("urls", <<UrlY>>)]>> } }

\* the arguments a caller passes instead
OtherArguments ==
    { << <<[k |-> NameAB, v |-> <<UrlX>>]>>,
         <<[k |-> NameAB, v |-> Metadata(EmptyStr, EmptyStr, FALSE, FALSE)]>>,
         (<<>>),
         <<[k |-> NameA, v |-> Field("enabled", TRUE) @@ Field("urls", <<UrlY>>)]>> >>,
      << <<[k |-> NameC, v |-> <<UrlY, UrlX>>]>>, (<<>>), (<<>>), (<<>>) >> }

Arguments == <<service_urls, service_metadata, overrides, external_apps>>

PipelineIdle ==
    /\ traefik_api = FALSE
    /\ primary = [ok |-> FALSE]
    /\ fallback = [ok |-> FALSE]
    /\ containers = [ok |-> FALSE]
    /\ requests = <<>>
    /\ own = [status |-> "unset"]

InitPure ==
    /\ \E a \in PureArguments :
           /\ service_urls = a[1]
           /\ service_metadata = a[2]
           /\ overrides = a[3]
           /\ external_apps = a[4]
    /\ heap = heap_of_arguments(service_urls, overrides, external_apps)
    /\ calls = <<>>
    /\ apps = <<>>
    /\ stdout = <<>>
    /\ pc = "pure"
    /\ PipelineIdle
    /\ RuleIdle /\ SchemeIdle /\ WriteIdle /\ ProbeIdle /\ AppsIdle

\* apps = build_app_list(service_urls, service_metadata, overrides, external_apps),
\* once more
Invoke ==
    /\ pc = "pure"
    /\ Len(calls) < MaxCalls
    /\ LET r == build_app_list(service_urls, service_metadata, overrides, external_apps)
           h == heap_after_build_app_list(heap, service_urls, overrides, external_apps)
       IN  /\ apps' = r.apps
           /\ stdout' = r.prints
           /\ heap' = h
           /\ service_urls' = lists_of_heap(h, "service_urls", service_urls, "")
           /\ overrides' = lists_of_heap(h, "overrides", overrides, "URLs")
           /\ external_apps' = lists_of_heap(h, "external_apps", external_apps, "urls")
           /\ calls' = Append(calls, [before |-> Arguments,
                                      after  |-> <<service_urls', service_metadata,
                                                   overrides', external_apps'>>,
                                      result |-> r.apps])
    /\ UNCHANGED <<service_metadata, traefik_api, primary, fallback, containers,
                   requests, own, pc, ruleVars, schemeVars, writeVars, probeVars,
                   appsVars>>

\* the caller makes its next invocation with other arguments
PassOther ==
    /\ pc = "pure"
    /\ calls # <<>>
    /\ Len(calls) < MaxCalls
    /\ \E a \in (OtherArguments \cup {calls[1].before}) \ {Arguments} :
           /\ service_urls' = a[1]
           /\ service_metadata' = a[2]
           /\ overrides' = a[3]
           /\ external_apps' = a[4]
           /\ heap' = heap_of_arguments(a[1], a[3], a[4])
    /\ UNCHANGED <<apps, stdout, calls, traefik_api, primary, fallback, containers,
                   requests, own, pc, ruleVars, schemeVars, writeVars, probeVars,
                   appsVars>>

NextPure == Invoke \/ PassOther

SpecPure == InitPure /\ [][NextPure]_vars

(***************************************************************************)
(* C25                                                                     *)
(***************************************************************************)

\* C25: build_app_list is a pure function: any sequence of invocations
\* leaves its four input maps unchanged, and two invocations with equal
\* inputs return equal entry lists whatever invocations happened before.
C25_BuildAppListPure ==
    /\ \A i \in DOMAIN calls : calls[i].after = calls[i].before
    /\ \A i, j \in DOMAIN calls :
           calls[i].before = calls[j].before => calls[i].result = calls[j].result

\* The first and the third invocation had the same arguments and the second
\* had others; in the first, the second loop extended a list by the app's own
\* URLs and the third loop by the override's URLs.
C25_Witness ==
    /\ Len(calls) = 3
    /\ calls[1].before = calls[3].before
    /\ calls[1].before # calls[2].before
    /\ calls[1].before[1] # <<>>
    /\ \E i \in DOMAIN calls[1].before[4] : "urls" \in DOMAIN calls[1].before[4][i].v
    /\ \E i \in DOMAIN calls[1].before[3] : "URLs" \in DOMAIN calls[1].before[3][i].v
    /\ Len(calls[1].result) = 3

(***************************************************************************)
(* atomic_write.  The directory of the target is a function from the names *)
(* of its files to [content |-> the chunks written, mode |-> the           *)
(* permission bits].  A content is written chunk by chunk, so that a file  *)
(* can be seen with a part of it.  A step of a call that raises is a       *)
(* failure the filesystem decides: any step after mkstemp can fail, and so *)
(* can the os.unlink of the handler.                                       *)
(***************************************************************************)

MaxWrites == 2

DefaultMode == 420     \* 0o644
CustomMode  == 384     \* 0o600
TempMode    == 384     \* 0o600, the mode mkstemp creates a file with

Filepath  == "test.txt"
TempPaths == {".test.txt.1.tmp", ".test.txt.2.tmp", ".test.txt.3.tmp"}
NoPath    == ""

ContentA == <<"a1", "a2">>
ContentB == <<"b1", "b2">>
Contents == {ContentA, ContentB}
Modes    == {DefaultMode, CustomMode}

\* the file the target is before any call, where there is one
InitialFile == [content |-> <<"o1", "o2">>, mode |-> DefaultMode]

\* what a reader of the target finds
Observed(dir) ==
    IF Filepath \in DOMAIN dir THEN [exists |-> TRUE, file |-> dir[Filepath]]
    ELSE [exists |-> FALSE]

\* a process that is not in a call
NotCalling ==
    [pc |-> "idle", content |-> <<>>, mode |-> DefaultMode, temp_path |-> NoPath,
     before |-> [exists |-> FALSE], outcome |-> "none", failed |-> FALSE, kept |-> FALSE]

\* mutant of unused_paths: mkstemp may take the name of a file that exists
Mutant_unused_paths(dir) == TempPaths

\* the names mkstemp can create: it opens with O_EXCL and tries another
\* name when one exists
unused_paths(dir) == TempPaths \ DOMAIN dir

\* the directory with file name holding f
with_file(dir, name, f) ==
    [n \in DOMAIN dir \cup {name} |-> IF n = name THEN f ELSE dir[n]]

\* os.unlink(name)
without_file(dir, name) == [n \in DOMAIN dir \ {name} |-> dir[n]]

\* mutant of renamed: the temporary file is copied onto the target
Mutant_renamed(dir, temp_path) == with_file(dir, Filepath, dir[temp_path])

\* os.rename(temp_path, filepath): the target is replaced in one step
renamed(dir, temp_path) == without_file(with_file(dir, Filepath, dir[temp_path]), temp_path)

\* fd, temp_path = tempfile.mkstemp(...): the call begins
Mkstemp(p) ==
    /\ writer[p].pc = "idle"
    /\ writes < MaxWrites
    /\ \E content \in Contents, mode \in Modes, temp_path \in unused_paths(files) :
           /\ files' = with_file(files, temp_path, [content |-> <<>>, mode |-> TempMode])
           /\ writer' = [writer EXCEPT ![p] =
                  [pc |-> "open", content |-> content, mode |-> mode,
                   temp_path |-> temp_path, before |-> Observed(files),
                   outcome |-> "running", failed |-> FALSE, kept |-> FALSE]]
           /\ started' = started \cup {[content |-> content, mode |-> mode]}
    /\ writes' = writes + 1
    /\ UNCHANGED returned

\* mkstemp raises: no file was created and the try block is not entered
MkstempFails(p) ==
    /\ writer[p].pc = "idle"
    /\ writes < MaxWrites
    /\ \E content \in Contents, mode \in Modes :
           /\ writer' = [writer EXCEPT ![p] =
                  [pc |-> "idle", content |-> content, mode |-> mode,
                   temp_path |-> NoPath, before |-> Observed(files),
                   outcome |-> "raised", failed |-> TRUE, kept |-> FALSE]]
           /\ started' = started \cup {[content |-> content, mode |-> mode]}
    /\ writes' = writes + 1
    /\ UNCHANGED <<files, returned>>

\* with os.fdopen(fd, 'w') as f: f.write(content), one chunk reaching the
\* file; after the last one the file is closed
Write(p) ==
    LET w    == writer[p]
        done == Len(files[w.temp_path].content)
    IN  /\ w.pc = "open"
        /\ files' = [files EXCEPT ![w.temp_path].content = Append(@, w.content[done + 1])]
        /\ writer' = [writer EXCEPT ![p].pc =
               IF done + 1 = Len(w.content) THEN "written" ELSE "open"]
        /\ UNCHANGED <<writes, started, returned>>

\* os.chmod(temp_path, mode)
Chmod(p) ==
    /\ writer[p].pc = "written"
    /\ files' = [files EXCEPT ![writer[p].temp_path].mode = writer[p].mode]
    /\ writer' = [writer EXCEPT ![p].pc = "chmodded"]
    /\ UNCHANGED <<writes, started, returned>>

\* os.rename(temp_path, filepath), and the call returns
Rename(p) ==
    /\ writer[p].pc = "chmodded"
    /\ files' = renamed(files, writer[p].temp_path)
    /\ writer' = [writer EXCEPT ![p].pc = "idle", ![p].outcome = "returned"]
    /\ returned' = returned \cup {[content |-> writer[p].content, mode |-> writer[p].mode]}
    /\ UNCHANGED <<writes, started>>

\* the write, the chmod or the rename raises: except Exception is entered
Raises(p) ==
    /\ writer[p].pc \in {"open", "written", "chmodded"}
    /\ writer' = [writer EXCEPT ![p].pc = "except", ![p].failed = TRUE]
    /\ UNCHANGED <<files, writes, started, returned>>

\* os.unlink(temp_path), then raise
Unlink(p) ==
    /\ writer[p].pc = "except"
    /\ files' = without_file(files, writer[p].temp_path)
    /\ writer' = [writer EXCEPT ![p].pc = "idle", ![p].outcome = "raised"]
    /\ UNCHANGED <<writes, started, returned>>

\* os.unlink(temp_path) raises OSError: pass, then raise
UnlinkFails(p) ==
    /\ writer[p].pc = "except"
    /\ writer' = [writer EXCEPT ![p].pc = "idle", ![p].outcome = "raised",
                                ![p].kept = TRUE]
    /\ UNCHANGED <<files, writes, started, returned>>

AtomicWriteBegins  == \E p \in DOMAIN writer : Mkstemp(p)
AtomicWriteRefused == \E p \in DOMAIN writer : MkstempFails(p)
AtomicWriteWrites  == \E p \in DOMAIN writer : Write(p)
AtomicWriteChmods  == \E p \in DOMAIN writer : Chmod(p)
AtomicWriteRenames == \E p \in DOMAIN writer : Rename(p)
AtomicWriteRaises  == \E p \in DOMAIN writer : Raises(p)
AtomicWriteUnlinks == \E p \in DOMAIN writer : Unlink(p)
AtomicWriteKeeps   == \E p \in DOMAIN writer : UnlinkFails(p)

NextWrite ==
    /\ \/ AtomicWriteBegins
       \/ AtomicWriteRefused
       \/ AtomicWriteWrites
       \/ AtomicWriteChmods
       \/ AtomicWriteRenames
       \/ AtomicWriteRaises
       \/ AtomicWriteUnlinks
       \/ AtomicWriteKeeps
    /\ UNCHANGED notWriteVars

\* the directory before any call: empty, or holding the target
InitDirectory ==
    /\ files \in {<<>>, with_file(<<>>, Filepath, InitialFile)}
    /\ writes = 0
    /\ started = {}
    /\ returned = {}
    /\ OnlyWrite

\* one process calls atomic_write again and again
InitSequential ==
    /\ InitDirectory
    /\ writer = [p \in {"w1"} |-> NotCalling]

SpecSequential == InitSequential /\ [][NextWrite]_vars

\* two processes call atomic_write on the same target
InitConcurrent ==
    /\ InitDirectory
    /\ writer = [p \in {"w1", "w2"} |-> NotCalling]

SpecConcurrent == InitConcurrent /\ [][NextWrite]_vars

(***************************************************************************)
(* C26                                                                     *)
(***************************************************************************)

\* the call of p returned: the target is the content under the mode, and
\* the call's temporary file is gone
ReturnedRight(p) ==
    (writer[p].pc = "idle" /\ writer[p].outcome = "returned") =>
        /\ Observed(files) = [exists |-> TRUE,
                              file |-> [content |-> writer[p].content,
                                        mode |-> writer[p].mode]]
        /\ writer[p].temp_path \notin DOMAIN files

\* a step of the call of p failed: the exception propagated and the target
\* is what it was before the call
FailedRight(p) ==
    (writer[p].pc = "idle" /\ writer[p].failed) =>
        /\ writer[p].outcome = "raised"
        /\ Observed(files) = writer[p].before

Calling == {p \in DOMAIN writer : writer[p].pc # "idle"}

\* C28: at every intermediate step of one or several interleaved
\* atomic_write calls on the same target, a reader of the path observes
\* either the complete previous content or the complete content of one of
\* the calls, never partial or mixed content; each call writes to its own
\* temporary file, and once all calls have finished the target holds the
\* complete content of exactly one of them (of one that returned, when any
\* did; the previous content when none did).
C28_ReaderSeesWholeContent ==
    /\ Observed(files).exists =>
           Observed(files).file \in {InitialFile} \cup started
    /\ \A p, q \in Calling : p # q => writer[p].temp_path # writer[q].temp_path
    /\ \A p \in Calling : writer[p].temp_path \in DOMAIN files
    /\ (Calling = {} /\ returned # {}) => Observed(files).file \in returned
    /\ returned = {} => Observed(files) \in {[exists |-> FALSE],
                                             [exists |-> TRUE, file |-> InitialFile]}

\* While one call has written a part of its content to its temporary file,
\* the target holds the whole content of the other call, which returned.
C28_Witness ==
    /\ writer["w1"].pc = "open"
    /\ Len(files[writer["w1"].temp_path].content) = 1
    /\ writer["w2"].pc = "idle"
    /\ writer["w2"].outcome = "returned"
    /\ writer["w1"].before = [exists |-> TRUE, file |-> InitialFile]
    /\ writer["w1"].content # writer["w2"].content
    /\ Observed(files).file = [content |-> writer["w2"].content, mode |-> writer["w2"].mode]

\* Both calls returned after interleaved steps, and the target holds the
\* content of one of them.
C28_BothReturned ==
    /\ Calling = {}
    /\ writes = 2
    /\ writer["w1"].outcome = "returned"
    /\ writer["w2"].outcome = "returned"
    /\ writer["w1"].content # writer["w2"].content
    /\ writer["w1"].before = writer["w2"].before
    /\ Observed(files).file.content = writer["w1"].content

(***************************************************************************)
(* C27                                                                     *)
(***************************************************************************)

\* C27: when listing the runtime's containers fails, build_service_url_map
\* does not raise: it returns the URL map obtained from the router table,
\* unchanged, together with an empty metadata map, so that the merge emits
\* no label-sourced entry and still emits the external and the
\* override-only entries.
C27_ListingFailureDegrades ==
    ~containers.ok =>
        /\ pc \in {"call", "done"} =>
               /\ service_urls = fetch_traefik_routers(traefik_api, primary, fallback).urls
               /\ service_metadata = <<>>
        /\ Done =>
               /\ \A i \in DOMAIN apps : apps[i].src # "label"
               /\ \A i \in DOMAIN external_apps :
                      (/\ Get(external_apps[i].v, "enabled", FALSE)
                       /\ Get(external_apps[i].v, "urls", <<>>) # <<>>) =>
                          \E j \in DOMAIN apps : /\ apps[j].key = external_apps[i].k
                                                 /\ apps[j].src = "external"
               /\ \A i \in DOMAIN overrides :
                      (/\ ~InDict(overrides[i].k, service_urls)
                       /\ ~InDict(overrides[i].k, external_apps)
                       /\ Get(overrides[i].v, "Enable", FALSE)
                       /\ ~Get(overrides[i].v, "Hide", FALSE)
                       /\ "Url" \in DOMAIN overrides[i].v) =>
                          \E j \in DOMAIN apps : /\ apps[j].key = overrides[i].k
                                                 /\ apps[j].src = "override"

\* The listing failed while the router table answered: the map has the
\* router's keys, and the page has the external and the override-only entry
\* and nothing else.
C27_Witness ==
    /\ Done
    /\ ~containers.ok
    /\ traefik_api
    /\ Len(service_urls) >= 2
    /\ Len(apps) = 2
    /\ \E i, j \in DOMAIN apps : apps[i].src = "external" /\ apps[j].src = "override"

(***************************************************************************)
(* test_traefik_endpoint, of generate_page.py and of traefik_home_apps.py. *)
(* What requests.get does for a URL is [raises |-> TRUE] or                *)
(* [raises |-> FALSE, status_code |-> the status of the response].         *)
(***************************************************************************)

PathHttpRouters == <<"/", "a", "p", "i", "/", "h", "t", "t", "p", "/", "r", "o", "u", "t", "e", "r", "s">>
PathRouters     == <<"/", "a", "p", "i", "/", "r", "o", "u", "t", "e", "r", "s">>
PathApi         == <<"/", "a", "p", "i">>

StatusCodes == {200, 404, 503}

Answers ==
    {[raises |-> TRUE]} \cup {[raises |-> FALSE, status_code |-> c] : c \in StatusCodes}

BaseUrls == {EmptyStr, <<"h", "t", "t", "p", ":", "/", "/", "t">>, <<"h", "t", "t", "p", ":", "/", "/", "t", "/">>}

\* requests.get(f"{base_url}{path}") after base_url.rstrip("/") answers 200
answers_ok(table, path) == ~table[path].raises /\ table[path].status_code = 200

\* generate_page.test_traefik_endpoint(base_url)
test_traefik_endpoint(url, table) ==
    LET stripped == RStrip(url, {"/"})
    IN  IF url = EmptyStr THEN [result |-> FALSE, requested |-> <<>>]
        ELSE IF ~table[PathHttpRouters].raises
        THEN [result |-> table[PathHttpRouters].status_code = 200,
              requested |-> <<stripped \o PathHttpRouters>>]
        ELSE IF ~table[PathRouters].raises
        THEN [result |-> table[PathRouters].status_code = 200,
              requested |-> <<stripped \o PathHttpRouters, stripped \o PathRouters>>]
        ELSE [result |-> FALSE,
              requested |-> <<stripped \o PathHttpRouters, stripped \o PathRouters>>]

\* the loop of traefik_home_apps.test_traefik_endpoint over the candidates
RECURSIVE test_candidates(_, _, _, _)
test_candidates(stripped, table, candidates, requested) ==
    IF candidates = <<>> THEN [result |-> FALSE, requested |-> requested]
    ELSE IF answers_ok(table, candidates[1])
    THEN [result |-> TRUE, requested |-> Append(requested, stripped \o candidates[1])]
    ELSE test_candidates(stripped, table, Tail(candidates),
                         Append(requested, stripped \o candidates[1]))

\* traefik_home_apps.test_traefik_endpoint(base_url)
next_test_traefik_endpoint(url, table) ==
    IF url = EmptyStr THEN [result |-> FALSE, requested |-> <<>>]
    ELSE test_candidates(RStrip(url, {"/"}), table,
                         <<PathHttpRouters, PathRouters, PathApi>>, <<>>)

InitProbe ==
    /\ base_url \in BaseUrls
    /\ answers \in [{PathHttpRouters, PathRouters, PathApi} -> Answers]
    /\ tested = <<>>
    /\ tested_next = <<>>
    /\ OnlyProbe

\* generate_page.test_traefik_endpoint(base_url)
TestTraefikEndpoint ==
    /\ tested = <<>>
    /\ tested' = <<test_traefik_endpoint(base_url, answers)>>
    /\ UNCHANGED <<notProbeVars, base_url, answers, tested_next>>

\* traefik_home_apps.test_traefik_endpoint(base_url)
NextTestTraefikEndpoint ==
    /\ tested_next = <<>>
    /\ tested_next' = <<next_test_traefik_endpoint(base_url, answers)>>
    /\ UNCHANGED <<notProbeVars, base_url, answers, tested>>

NextProbe == TestTraefikEndpoint \/ NextTestTraefikEndpoint

SpecProbe == InitProbe /\ [][NextProbe]_vars

(***************************************************************************)
(* C29                                                                     *)
(***************************************************************************)

\* C29: generate_page.test_traefik_endpoint returns True if and only if at
\* least one of the probes /api/http/routers and /api/routers answers with
\* status 200: the second probe is made whenever the first one did not
\* answer 200 (exception or non-200 status), and the function never raises.
C29_TrueIffSomeProbeAnswers200 ==
    (tested # <<>> /\ base_url # EmptyStr) =>
        /\ tested[1].result <=>
               (answers_ok(answers, PathHttpRouters) \/ answers_ok(answers, PathRouters))
        /\ Len(tested[1].requested) = 2 <=> ~answers_ok(answers, PathHttpRouters)

\* What holds of generate_page.test_traefik_endpoint: the second probe is
\* made only when the first one raised, and the result is whether the probe
\* that answered first answered 200.
C29_SecondProbeOnlyAfterException ==
    (tested # <<>> /\ base_url # EmptyStr) =>
        /\ Len(tested[1].requested) = 2 <=> answers[PathHttpRouters].raises
        /\ tested[1].result <=>
               IF ~answers[PathHttpRouters].raises THEN answers_ok(answers, PathHttpRouters)
               ELSE answers_ok(answers, PathRouters)

\* Of traefik_home_apps.test_traefik_endpoint the statement holds, with /api
\* as a third probe.
C29_NextProbesUntil200 ==
    (tested_next # <<>> /\ base_url # EmptyStr) =>
        /\ tested_next[1].result <=> \E path \in DOMAIN answers : answers_ok(answers, path)
        /\ Len(tested_next[1].requested) >= 2 <=> ~answers_ok(answers, PathHttpRouters)

\* The first probe raised and the second answered 200.
C29_Witness ==
    /\ tested # <<>>
    /\ answers[PathHttpRouters].raises
    /\ answers_ok(answers, PathRouters)
    /\ tested[1] = [result |-> TRUE,
                    requested |-> <<<<"h", "t", "t", "p", ":", "/", "/", "t", "/", "a", "p", "i", "/", "h", "t", "t", "p", "/", "r", "o", "u", "t", "e", "r", "s">>, <<"h", "t", "t", "p", ":", "/", "/", "t", "/", "a", "p", "i", "/", "r", "o", "u", "t", "e", "r", "s">>>>]

(***************************************************************************)
(* build_app_list of traefik_home_apps.py.  A container is                 *)
(* [name |-> c.name, attrs |-> whether reading its labels works (reading   *)
(* them raises when Config is null), labels |-> its labels, running |->    *)
(* State.Running].  Properties are a function from the property names      *)
(* that are present to strings.  An entry carries the loop that built it   *)
(* in the field src.                                                       *)
(***************************************************************************)

PerContainerLabels ==
    { <<HomeAliasLabel, "alias">>, <<HomeIconLabel, "icon">>, <<HomeAdminLabel, "admin">>,
      <<HomeEnableLabel, "enable">>, <<HomeHideLabel, "hide">> }

\* the properties given by labels that match PER_CONTAINER_RE
RECURSIVE collect_per_container_labels(_, _)
collect_per_container_labels(result, labels) ==
    IF labels = <<>> THEN result
    ELSE collect_per_container_labels(
             IF \E m \in PerContainerLabels : m[1] = labels[1].k
             THEN SetField(result, (CHOOSE m \in PerContainerLabels : m[1] = labels[1].k)[2],
                           labels[1].v)
             ELSE result,
             Tail(labels))

\* sorted(urls) of the URLs of every key that matches the container name
match_urls_for_container(container_name, su) ==
    LET matched == SelectSeq(su, LAMBDA e :
                       /\ e.k # EmptyStr
                       /\ \/ container_name = e.k
                          \/ Contains(e.k, container_name)
                          \/ Contains(container_name, e.k)
                          \/ StartsWith(e.k, container_name \o Hyphen)
                          \/ StartsWith(container_name, e.k \o Hyphen))
    IN  SortedList(UNION {Range(matched[i].v) : i \in DOMAIN matched})

\* isinstance(val, str) and val.lower() == "true"
str_is_true(val) == Lower(val) = TrueWord

\* per_labels.get(prop) or overrides.get(name, {}).get(prop, "") or ""
label_or_override(per_labels, ov, name, prop) ==
    IF Get(per_labels, prop, EmptyStr) # EmptyStr THEN per_labels[prop]
    ELSE Get(DictGet(ov, name, EmptyRecord), prop, EmptyStr)

\* admin only "true"/"false" if explicit
normal_admin(admin_raw) ==
    IF Lower(admin_raw) \in {TrueWord, FalseWord} THEN Lower(admin_raw) ELSE EmptyStr

\* enable defaults to "true" unless explicitly "false"
normal_enable(enable_raw) ==
    IF Lower(enable_raw) = FalseWord THEN FalseWord ELSE TrueWord

\* results after the body of the first loop for one container
container_entry_step(list, c, su, ov) ==
    LET per_labels == collect_per_container_labels(EmptyRecord, c.labels)
        alias      == label_or_override(per_labels, ov, c.name, "alias")
        hide       == str_is_true(label_or_override(per_labels, ov, c.name, "hide"))
    IN  IF Lower(c.name) = RouterWord THEN list
        ELSE IF ~c.attrs THEN list
        ELSE IF ~(per_labels # EmptyRecord \/ InDict(c.name, ov)) THEN list
        ELSE IF hide THEN list
        ELSE Append(list,
                 [ Name    |-> c.name,
                   Alias   |-> IF alias # EmptyStr THEN alias ELSE c.name,
                   URLs    |-> match_urls_for_container(c.name, su),
                   Icon    |-> label_or_override(per_labels, ov, c.name, "icon"),
                   Admin   |-> normal_admin(label_or_override(per_labels, ov, c.name, "admin")),
                   Enable  |-> normal_enable(label_or_override(per_labels, ov, c.name, "enable")),
                   Hide    |-> hide,
                   Running |-> c.running,
                   src     |-> "container" ])

RECURSIVE container_entry_loop(_, _, _, _)
container_entry_loop(list, cs, su, ov) ==
    IF cs = <<>> THEN list
    ELSE container_entry_loop(container_entry_step(list, cs[1], su, ov), Tail(cs), su, ov)

\* mutant of is_override_only_service: a container of that name does not matter
Mutant_is_override_only_service(list, svc, cs) ==
    /\ Lower(svc) # RouterWord
    /\ ~\E i \in DOMAIN list : list[i].Name = svc

\* the conditions under which the second loop goes on to the hide test
is_override_only_service(list, svc, cs) ==
    /\ Lower(svc) # RouterWord
    /\ ~\E i \in DOMAIN list : list[i].Name = svc
    /\ ~\E i \in DOMAIN cs : cs[i].name = svc

\* results after the body of the second loop for one override
override_entry_step(list, svc, props, cs, su) ==
    IF ~is_override_only_service(list, svc, cs) THEN list
    ELSE IF str_is_true(Get(props, "hide", EmptyStr)) THEN list
    ELSE Append(list,
             [ Name    |-> svc,
               Alias   |-> Get(props, "alias", svc),
               URLs    |-> SortedList(Range(DictGet(su, svc, <<>>))),
               Icon    |-> Get(props, "icon", EmptyStr),
               Admin   |-> normal_admin(Get(props, "admin", EmptyStr)),
               Enable  |-> normal_enable(Get(props, "enable", EmptyStr)),
               Hide    |-> FALSE,
               Running |-> FALSE,
               src     |-> "override" ])

RECURSIVE override_entry_loop(_, _, _, _)
override_entry_loop(list, ov, cs, su) ==
    IF ov = <<>> THEN list
    ELSE override_entry_loop(override_entry_step(list, ov[1].k, ov[1].v, cs, su),
                             Tail(ov), cs, su)

\* traefik_home_apps.build_app_list(docker_client, service_to_urls, overrides)
next_build_app_list(cs, su, ov) ==
    override_entry_loop(container_entry_loop(<<>>, cs, su, ov), ov, cs, su)

MaxContainers == 2

\* label maps of a container: none, one that is no traefik-home label, an
\* alias, hide written "True", an enable of "false"
AppLabelMaps ==
    { <<>>, Label(LabelRuleR, RuleH), Label(HomeAliasLabel, NameC),
      Label(HomeHideLabel, ValueTrueCap), Label(HomeEnableLabel, FalseWord) }

AppContainers ==
    { [name |-> n, attrs |-> TRUE, labels |-> l, running |-> TRUE] :
        n \in {NameRouterCap, NameA, NameAB}, l \in AppLabelMaps }
    \cup { [name |-> n, attrs |-> FALSE, labels |-> <<>>, running |-> FALSE] :
             n \in {NameA, NameAB} }

AppListings(n) ==
    { l \in [1..n -> AppContainers] : \A i, j \in 1..n : i # j => l[i].name # l[j].name }

AppProperties ==
    { EmptyRecord, Field("hide", TrueWord), Field("alias", NameC) @@ Field("admin", ValueTrueCap) }

InitApps ==
    /\ \E n \in 0..MaxContainers : listed \in AppListings(n)
    /\ service_to_urls \in { <<>>, <<[k |-> NameAB, v |-> <<UrlY, UrlX>>]>> }
    /\ app_overrides \in DictsUpTo({NameRouterCap, NameA, NameC}, AppProperties, 2)
    /\ results = <<>>
    /\ OnlyApps

\* apps = build_app_list(docker_client, service_to_urls, overrides)
NextBuildAppList ==
    /\ results = <<>>
    /\ results' = <<next_build_app_list(listed, service_to_urls, app_overrides)>>
    /\ UNCHANGED <<notAppsVars, listed, service_to_urls, app_overrides>>

NextApps == NextBuildAppList

SpecApps == InitApps /\ [][NextApps]_vars

(***************************************************************************)
(* C30                                                                     *)
(***************************************************************************)

\* C30: in the next-generation script, every entry build_app_list returns
\* has Hide equal to False and a Name that is not "router" compared
\* case-insensitively, and no two entries share a Name (container names are
\* distinct): an override key is added as an override-only entry only if
\* no container with that name exists and no entry with that Name was
\* already produced.
C30_NoHiddenNoRouterNoDuplicate ==
    results # <<>> =>
        LET list == results[1]
        IN  /\ \A i \in DOMAIN list : /\ list[i].Hide = FALSE
                                      /\ Lower(list[i].Name) # NameRouter
            /\ \A i, j \in DOMAIN list : i # j => list[i].Name # list[j].Name
            /\ \A i \in DOMAIN list :
                   list[i].src = "override" =>
                       /\ InDict(list[i].Name, app_overrides)
                       /\ \A j \in DOMAIN listed : listed[j].name # list[i].Name
                       /\ \A j \in 1..(i - 1) : list[j].Name # list[i].Name

\* A hidden container and a container named Router are left out although
\* both have an override, and an override for a name without a container is
\* added as an override-only entry.
C30_Witness ==
    /\ results # <<>>
    /\ \E i, j \in DOMAIN listed :
           /\ listed[i].name = NameRouterCap
           /\ listed[j].name = NameA
           /\ listed[j].labels = Label(HomeHideLabel, ValueTrueCap)
    /\ DictKeys(app_overrides) = {NameA, NameC}
    /\ Len(results[1]) = 1
    /\ results[1][1].Name = NameC
    /\ results[1][1].src = "override"

=============================================================================
